---- MODULE Spec2Model ----
(***************************************************************************)
(* INAV JavaScript transpiler: the code generator (INAVCodeGenerator, the  *)
(* revision with error collection and variable support) and the           *)
(* decompiler (Decompiler, the revision with special-pattern detection).  *)
(*                                                                         *)
(* A CLI command `logic i e a op at av bt bv f` is modelled by the record  *)
(* of its nine integer fields.  Source identifiers ('gvar[3]', 'rc[5]',    *)
(* 'flight.yaw') are modelled by tagged records, so that startsWith and    *)
(* the \d+ match of the code become a test of the tag and a field read.    *)
(***************************************************************************)
EXTENDS Integers, Sequences, FiniteSets, TLC

(* ----------------------------- bounds ---------------------------------- *)
\* statements of a program that are chosen freely
MaxStmts == 3
\* length of a program made of one statement repeated
MaxRepeat == 65
\* content changes of an editor, the time up to which it is followed, and
\* the longest debounce delay
MaxChanges == 3
MaxTime == 6
MaxDebounce == 2

(* ------------------------ inav_constants.js ---------------------------- *)
OPERAND_TYPE_VALUE == 0
OPERAND_TYPE_RC_CHANNEL == 1
OPERAND_TYPE_FLIGHT == 2
OPERAND_TYPE_FLIGHT_MODE == 3
\* the operand type "result of another logic condition": GET_LC_VALUE,
\* formerly named LC, which is the name the code generator uses
OPERAND_TYPE_LC == 4
OPERAND_TYPE_GVAR == 5
OPERAND_TYPE_PID == 6
OPERAND_TYPE_WAYPOINTS == 7

OPERATION_TRUE == 0
OPERATION_EQUAL == 1
OPERATION_GREATER_THAN == 2
OPERATION_LOWER_THAN == 3
OPERATION_LOW == 4
OPERATION_MID == 5
OPERATION_HIGH == 6
OPERATION_AND == 7
OPERATION_OR == 8
OPERATION_XOR == 9
OPERATION_NAND == 10
OPERATION_NOR == 11
OPERATION_NOT == 12
OPERATION_STICKY == 13
OPERATION_ADD == 14
OPERATION_SUB == 15
OPERATION_MUL == 16
OPERATION_DIV == 17
OPERATION_GVAR_SET == 18
OPERATION_GVAR_INC == 19
OPERATION_GVAR_DEC == 20
OPERATION_PORT_SET == 21
OPERATION_OVERRIDE_ARMING_SAFETY == 22
OPERATION_OVERRIDE_THROTTLE_SCALE == 23
OPERATION_SWAP_ROLL_YAW == 24
OPERATION_SET_VTX_POWER_LEVEL == 25
OPERATION_INVERT_ROLL == 26
OPERATION_INVERT_PITCH == 27
OPERATION_INVERT_YAW == 28
OPERATION_OVERRIDE_THROTTLE == 29
OPERATION_SET_VTX_BAND == 30
OPERATION_SET_VTX_CHANNEL == 31
OPERATION_SET_OSD_LAYOUT == 32
OPERATION_SIN == 33
OPERATION_COS == 34
OPERATION_TAN == 35
OPERATION_MAP_INPUT == 36
OPERATION_MAP_OUTPUT == 37
OPERATION_RC_CHANNEL_OVERRIDE == 38
OPERATION_SET_HEADING_TARGET == 39
OPERATION_MODULUS == 40
OPERATION_LOITER_OVERRIDE == 41
OPERATION_SET_PROFILE == 42
OPERATION_MIN == 43
OPERATION_MAX == 44
OPERATION_FLIGHT_AXIS_ANGLE_OVERRIDE == 45
OPERATION_FLIGHT_AXIS_RATE_OVERRIDE == 46
OPERATION_EDGE == 47
OPERATION_DELAY == 48
OPERATION_TIMER == 49
OPERATION_DELTA == 50
OPERATION_APPROX_EQUAL == 51
OPERATION_LED_PIN_PWM == 52
OPERATION_DISABLE_GPS_FIX == 53
OPERATION_RESET_MAG_CALIBRATION == 54
OPERATION_SET_GIMBAL_SENSITIVITY == 55
OPERATION_OVERRIDE_MIN_GROUND_SPEED == 56

\* the engine's table capacity (rule table: 64 slots)
MAX_LOGIC_CONDITIONS == 64

\* FLIGHT_PARAM_NAMES: the name of each flight parameter
FLIGHT_PARAM_NAMES ==
  (0 :> "armTimer") @@ (1 :> "homeDistance") @@ (2 :> "tripDistance") @@
  (3 :> "rssi") @@ (4 :> "vbat") @@ (5 :> "cellVoltage") @@
  (6 :> "current") @@ (7 :> "mahDrawn") @@ (8 :> "gpsNumSat") @@
  (9 :> "groundSpeed") @@ (10 :> "speed3d") @@ (11 :> "airSpeed") @@
  (12 :> "altitude") @@ (13 :> "verticalSpeed") @@ (14 :> "throttlePos") @@
  (15 :> "roll") @@ (16 :> "pitch") @@ (17 :> "isArmed") @@
  (18 :> "isAutolaunch") @@ (19 :> "isAltitudeControl") @@
  (20 :> "isPositionControl") @@ (21 :> "isEmergencyLanding") @@
  (22 :> "isRth") @@ (23 :> "isLanding") @@ (24 :> "isFailsafe") @@
  (25 :> "stabilizedRoll") @@ (26 :> "stabilizedPitch") @@
  (27 :> "stabilizedYaw") @@ (28 :> "homeDistance3d") @@
  (29 :> "crsfLqUplink") @@ (30 :> "crsfSnr") @@ (31 :> "gpsValid") @@
  (32 :> "loiterRadius") @@ (33 :> "activeProfile") @@ (34 :> "battCells") @@
  (35 :> "aglStatus") @@ (36 :> "agl") @@ (37 :> "rangefinderRaw") @@
  (38 :> "activeMixerProfile") @@ (39 :> "mixerTransitionActive") @@
  (40 :> "yaw") @@ (41 :> "fwLandState") @@ (42 :> "battProfile") @@
  (43 :> "flownLoiterRadius") @@ (44 :> "crsfLqDownlink") @@
  (45 :> "crsfRssiDbm") @@ (46 :> "minGroundSpeed") @@
  (47 :> "horizontalWindSpeed") @@ (48 :> "windDirection") @@
  (49 :> "relativeWindOffset")

getFlightParamName(paramId) ==
  IF paramId \in DOMAIN FLIGHT_PARAM_NAMES
    THEN FLIGHT_PARAM_NAMES[paramId]
    ELSE "unknown_param_" \o ToString(paramId)

OPERATION_NAMES ==
  (0 :> "TRUE") @@ (1 :> "EQUAL") @@ (2 :> "GREATER_THAN") @@
  (3 :> "LOWER_THAN") @@ (4 :> "LOW") @@ (5 :> "MID") @@ (6 :> "HIGH") @@
  (7 :> "AND") @@ (8 :> "OR") @@ (9 :> "XOR") @@ (10 :> "NAND") @@
  (11 :> "NOR") @@ (12 :> "NOT") @@ (13 :> "STICKY") @@ (14 :> "ADD") @@
  (15 :> "SUB") @@ (16 :> "MUL") @@ (17 :> "DIV") @@ (18 :> "GVAR_SET") @@
  (19 :> "GVAR_INC") @@ (20 :> "GVAR_DEC") @@ (21 :> "PORT_SET") @@
  (22 :> "OVERRIDE_ARMING_SAFETY") @@ (23 :> "OVERRIDE_THROTTLE_SCALE") @@
  (24 :> "SWAP_ROLL_YAW") @@ (25 :> "SET_VTX_POWER_LEVEL") @@
  (26 :> "INVERT_ROLL") @@ (27 :> "INVERT_PITCH") @@ (28 :> "INVERT_YAW") @@
  (29 :> "OVERRIDE_THROTTLE") @@ (30 :> "SET_VTX_BAND") @@
  (31 :> "SET_VTX_CHANNEL") @@ (32 :> "SET_OSD_LAYOUT") @@ (33 :> "SIN") @@
  (34 :> "COS") @@ (35 :> "TAN") @@ (36 :> "MAP_INPUT") @@
  (37 :> "MAP_OUTPUT") @@ (38 :> "RC_CHANNEL_OVERRIDE") @@
  (39 :> "SET_HEADING_TARGET") @@ (40 :> "MODULUS") @@
  (41 :> "LOITER_OVERRIDE") @@ (42 :> "SET_PROFILE") @@ (43 :> "MIN") @@
  (44 :> "MAX") @@ (45 :> "FLIGHT_AXIS_ANGLE_OVERRIDE") @@
  (46 :> "FLIGHT_AXIS_RATE_OVERRIDE") @@ (47 :> "EDGE") @@ (48 :> "DELAY") @@
  (49 :> "TIMER") @@ (50 :> "DELTA") @@ (51 :> "APPROX_EQUAL") @@
  (52 :> "LED_PIN_PWM") @@ (53 :> "DISABLE_GPS_FIX") @@
  (54 :> "RESET_MAG_CALIBRATION") @@ (55 :> "SET_GIMBAL_SENSITIVITY") @@
  (56 :> "OVERRIDE_MIN_GROUND_SPEED")

getOperationName(operationId) ==
  IF operationId \in DOMAIN OPERATION_NAMES
    THEN OPERATION_NAMES[operationId]
    ELSE "unknown_operation_" \o ToString(operationId)

\* flightModeNames of the decompiler
flightModeNames ==
  (0 :> "failsafe") @@ (1 :> "manual") @@ (2 :> "rth") @@ (3 :> "poshold") @@
  (4 :> "cruise") @@ (5 :> "althold") @@ (6 :> "angle") @@
  (7 :> "horizon") @@ (8 :> "air") @@ (9 :> "user1") @@ (10 :> "user2") @@
  (11 :> "courseHold") @@ (12 :> "user3") @@ (13 :> "user4") @@
  (14 :> "acro") @@ (15 :> "waypointMission") @@ (16 :> "anglehold")

(* ---------------------------- API catalog ------------------------------ *)
\* path -> operand encoding, as buildOperandMapping collects it from the
\* API definitions
operandMapping ==
  ("flight.armTimer" :> [type |-> OPERAND_TYPE_FLIGHT, value |-> 0]) @@
  ("flight.homeDistance" :> [type |-> OPERAND_TYPE_FLIGHT, value |-> 1]) @@
  ("flight.cellVoltage" :> [type |-> OPERAND_TYPE_FLIGHT, value |-> 5]) @@
  ("flight.altitude" :> [type |-> OPERAND_TYPE_FLIGHT, value |-> 12]) @@
  ("flight.yaw" :> [type |-> OPERAND_TYPE_FLIGHT, value |-> 40]) @@
  ("flight.mode.failsafe" :> [type |-> OPERAND_TYPE_FLIGHT_MODE, value |-> 0]) @@
  ("flight.mode.rth" :> [type |-> OPERAND_TYPE_FLIGHT_MODE, value |-> 2])

(* ------------------------------ AST ------------------------------------ *)
\* values (operands of the source)
Num(n) == [t |-> "num", v |-> n]
Gvar(i) == [t |-> "gvar", i |-> i]
Rc(i) == [t |-> "rc", i |-> i]
\* the identifier of a `var` variable that the variable handler resolves to
\* gvar[i]
Var(i) == [t |-> "var", i |-> i]
Path(p) == [t |-> "path", p |-> p]
\* expression objects: Math.abs(arg), an arithmetic BinaryExpression, a call
\* of another function
Abs(arg) == [t |-> "abs", arg |-> arg]
Arith(op, l, r) == [t |-> "arith", operator |-> op, left |-> l, right |-> r]
OtherCall == [t |-> "call"]

\* conditions
Binary(op, l, r) ==
  [type |-> "BinaryExpression", operator |-> op, left |-> l, right |-> r]
Logical(op, l, r) ==
  [type |-> "LogicalExpression", operator |-> op, left |-> l, right |-> r]
Unary(arg) == [type |-> "UnaryExpression", argument |-> arg]
Member(p) == [type |-> "MemberExpression", value |-> Path(p)]
Literal(b) == [type |-> "Literal", value |-> b]
\* a node of a type generateCondition does not know
CallCondition == [type |-> "CallExpression"]
NoCondition == [type |-> "null"]

\* body statements
Assign(target, value) ==
  [type |-> "Assignment", target |-> target, operation |-> "",
   value |-> value, left |-> Num(0), right |-> Num(0)]
AssignOp(target, op, l, r) ==
  [type |-> "Assignment", target |-> target, operation |-> op,
   value |-> Num(0), left |-> l, right |-> r]
Override(name) == [t |-> "override", name |-> name]
OtherTarget == [t |-> "other"]

(* ------------------------- generator state ----------------------------- *)
\* the fields of an INAVCodeGenerator that a generate run changes
NewGen == [lcIndex |-> 0, commands |-> <<>>, errors |-> <<>>, thrown |-> FALSE]

\* push without `this.lcIndex++`
pushKeepIndex(g, activatorId, operation, aType, aValue, bType, bValue) ==
  [g EXCEPT
     !.commands = Append(@, <<g.lcIndex, 1, activatorId, operation,
                              aType, aValue, bType, bValue, 0>>)]

\* this.commands.push(`logic ${this.lcIndex} 1 ${activatorId} ${operation}
\* ${aType} ${aValue} ${bType} ${bValue} 0`); this.lcIndex++;
\* a command is the sequence of the numbers that follow the word logic
push(g, activatorId, operation, aType, aValue, bType, bValue) ==
  [g EXCEPT
     !.commands = Append(@, <<g.lcIndex, 1, activatorId, operation,
                              aType, aValue, bType, bValue, 0>>),
     !.lcIndex = @ + 1]

\* this.errorHandler.addError(message, node, type)
addError(g, type) == [g EXCEPT !.errors = Append(@, type)]

\* ops[operator] || OPERATION.EQUAL
getOperation(operator) ==
  CASE operator = "===" -> OPERATION_EQUAL
    [] operator = "==" -> OPERATION_EQUAL
    [] operator = ">" -> OPERATION_GREATER_THAN
    [] operator = "<" -> OPERATION_LOWER_THAN
    [] operator = ">=" -> OPERATION_GREATER_THAN
    [] operator = "<=" -> OPERATION_LOWER_THAN
    [] operator = "!==" -> OPERATION_NOT
    [] operator = "!=" -> OPERATION_NOT
    [] OTHER -> OPERATION_EQUAL

\* ops[operator] || OPERATION.ADD; the table's entry for '%' is OPERATION.MOD,
\* a name the operation enumeration does not define, so the lookup yields
\* undefined and the default applies
getArithmeticOperation(operator) ==
  CASE operator = "+" -> OPERATION_ADD
    [] operator = "-" -> OPERATION_SUB
    [] operator = "*" -> OPERATION_MUL
    [] operator = "/" -> OPERATION_DIV
    [] OTHER -> OPERATION_ADD

\* the targets getOverrideOperation knows; any other target throws
overrideOperations ==
  ("override.throttleScale" :> OPERATION_OVERRIDE_THROTTLE_SCALE) @@
  ("override.throttle" :> OPERATION_OVERRIDE_THROTTLE) @@
  ("override.vtx.power" :> OPERATION_SET_VTX_POWER_LEVEL) @@
  ("override.vtx.band" :> OPERATION_SET_VTX_BAND) @@
  ("override.vtx.channel" :> OPERATION_SET_VTX_CHANNEL) @@
  ("override.armSafety" :> OPERATION_OVERRIDE_ARMING_SAFETY)

RECURSIVE getOperand(_, _, _)
RECURSIVE generateExpression(_, _, _)

\* returns the generator state and the operand {type, value}
getOperand(g, value, activatorId) ==
  CASE value.t = "num" ->
         [g |-> g, type |-> OPERAND_TYPE_VALUE, value |-> value.v]
    [] value.t = "bool" ->
         [g |-> g, type |-> OPERAND_TYPE_VALUE,
          value |-> IF value.v THEN 1 ELSE 0]
    [] value.t = "gvar" ->
         [g |-> g, type |-> OPERAND_TYPE_GVAR, value |-> value.i]
    [] value.t = "var" ->
         [g |-> g, type |-> OPERAND_TYPE_GVAR, value |-> value.i]
    [] value.t = "rc" ->
         [g |-> g, type |-> OPERAND_TYPE_RC_CHANNEL, value |-> value.i]
    [] value.t = "path" ->
         IF value.p \in DOMAIN operandMapping
           THEN [g |-> g, type |-> operandMapping[value.p].type,
                 value |-> operandMapping[value.p].value]
           ELSE [g |-> addError(g, "unknown_operand"),
                 type |-> OPERAND_TYPE_VALUE, value |-> 0]
    [] value.t \in {"abs", "arith", "call"} ->
         generateExpression(g, value, activatorId)
    [] OTHER -> [g |-> g, type |-> OPERAND_TYPE_VALUE, value |-> 0]

\* generateExpression with the MAX record of Math.abs reading its own slot
\* (absId) where the code reads negId
generateExpressionOwnSlot(g, expr, activatorId) ==
  CASE expr.t = "abs" ->
         LET arg == getOperand(g, expr.arg, activatorId)
             g1 == push(arg.g, activatorId, OPERATION_SUB,
                        OPERAND_TYPE_VALUE, 0, arg.type, arg.value)
             absId == g1.lcIndex
             g2 == push(g1, activatorId, OPERATION_MAX,
                        arg.type, arg.value, OPERAND_TYPE_LC, absId)
         IN [g |-> g2, type |-> OPERAND_TYPE_LC, value |-> absId]
    [] expr.t = "arith" ->
         LET left == getOperand(g, expr.left, activatorId)
             right == getOperand(left.g, expr.right, activatorId)
             op == getArithmeticOperation(expr.operator)
             resultId == right.g.lcIndex
         IN [g |-> push(right.g, activatorId, op, left.type, left.value,
                        right.type, right.value),
             type |-> OPERAND_TYPE_LC, value |-> resultId]
    [] expr.t = "call" ->
         [g |-> addError(g, "unsupported_function"),
          type |-> OPERAND_TYPE_VALUE, value |-> 0]
    [] OTHER ->
         [g |-> addError(g, "unsupported_expression"),
          type |-> OPERAND_TYPE_VALUE, value |-> 0]

generateExpression(g, expr, activatorId) ==
  CASE expr.t = "abs" ->
         LET arg == getOperand(g, expr.arg, activatorId)
             g1 == push(arg.g, activatorId, OPERATION_SUB,
                        OPERAND_TYPE_VALUE, 0, arg.type, arg.value)
             negId == arg.g.lcIndex
             g2 == push(g1, activatorId, OPERATION_MAX,
                        arg.type, arg.value, OPERAND_TYPE_LC, negId)
             absId == g1.lcIndex
         IN [g |-> g2, type |-> OPERAND_TYPE_LC, value |-> absId]
    [] expr.t = "arith" ->
         LET left == getOperand(g, expr.left, activatorId)
             right == getOperand(left.g, expr.right, activatorId)
             op == getArithmeticOperation(expr.operator)
             resultId == right.g.lcIndex
         IN [g |-> push(right.g, activatorId, op, left.type, left.value,
                        right.type, right.value),
             type |-> OPERAND_TYPE_LC, value |-> resultId]
    [] expr.t = "call" ->
         [g |-> addError(g, "unsupported_function"),
          type |-> OPERAND_TYPE_VALUE, value |-> 0]
    [] OTHER ->
         [g |-> addError(g, "unsupported_expression"),
          type |-> OPERAND_TYPE_VALUE, value |-> 0]

RECURSIVE generateConditionRightFirst(_, _, _)
\* generateCondition that lowers the right operand of && and || before the
\* left one
generateConditionRightFirst(g, condition, activatorId) ==
  CASE condition.type = "null" -> [g |-> g, id |-> g.lcIndex]
    [] condition.type = "BinaryExpression" ->
         LET left == getOperand(g, condition.left, -1)
             right == getOperand(left.g, condition.right, -1)
             op == getOperation(condition.operator)
         IN [g |-> push(right.g, activatorId, op, left.type, left.value,
                        right.type, right.value),
             id |-> right.g.lcIndex]
    [] condition.type = "LogicalExpression" ->
         LET r == generateConditionRightFirst(g, condition.right,
                                              activatorId)
             l == generateConditionRightFirst(r.g, condition.left,
                                              activatorId)
             op == IF condition.operator = "&&"
                     THEN OPERATION_AND ELSE OPERATION_OR
         IN [g |-> push(l.g, activatorId, op, OPERAND_TYPE_LC, l.id,
                        OPERAND_TYPE_LC, r.id),
             id |-> l.g.lcIndex]
    [] condition.type = "UnaryExpression" ->
         LET a == generateConditionRightFirst(g, condition.argument,
                                              activatorId)
         IN [g |-> push(a.g, activatorId, OPERATION_NOT, OPERAND_TYPE_LC,
                        a.id, OPERAND_TYPE_VALUE, 0),
             id |-> a.g.lcIndex]
    [] condition.type = "MemberExpression" ->
         LET operand == getOperand(g, condition.value, -1)
         IN [g |-> push(operand.g, activatorId, OPERATION_EQUAL,
                        operand.type, operand.value, OPERAND_TYPE_VALUE, 1),
             id |-> operand.g.lcIndex]
    [] condition.type = "Literal" ->
         [g |-> IF condition.value = TRUE
                  THEN push(g, activatorId, OPERATION_TRUE,
                            OPERAND_TYPE_VALUE, 0, OPERAND_TYPE_VALUE, 0)
                  ELSE push(g, activatorId, OPERATION_NOT,
                            OPERAND_TYPE_VALUE, 1, OPERAND_TYPE_VALUE, 0),
          id |-> g.lcIndex]
    [] OTHER ->
         [g |-> addError(g, "unsupported_condition"), id |-> g.lcIndex]

RECURSIVE generateCondition(_, _, _)
\* returns the generator state and the LC index of the condition's result
generateCondition(g, condition, activatorId) ==
  CASE condition.type = "null" -> [g |-> g, id |-> g.lcIndex]
    [] condition.type = "BinaryExpression" ->
         LET left == getOperand(g, condition.left, -1)
             right == getOperand(left.g, condition.right, -1)
             op == getOperation(condition.operator)
         IN [g |-> push(right.g, activatorId, op, left.type, left.value,
                        right.type, right.value),
             id |-> right.g.lcIndex]
    [] condition.type = "LogicalExpression" ->
         LET l == generateCondition(g, condition.left, activatorId)
             r == generateCondition(l.g, condition.right, activatorId)
             op == IF condition.operator = "&&"
                     THEN OPERATION_AND ELSE OPERATION_OR
         IN [g |-> push(r.g, activatorId, op, OPERAND_TYPE_LC, l.id,
                        OPERAND_TYPE_LC, r.id),
             id |-> r.g.lcIndex]
    [] condition.type = "UnaryExpression" ->
         LET a == generateCondition(g, condition.argument, activatorId)
         IN [g |-> push(a.g, activatorId, OPERATION_NOT, OPERAND_TYPE_LC,
                        a.id, OPERAND_TYPE_VALUE, 0),
             id |-> a.g.lcIndex]
    [] condition.type = "MemberExpression" ->
         LET operand == getOperand(g, condition.value, -1)
         IN [g |-> push(operand.g, activatorId, OPERATION_EQUAL,
                        operand.type, operand.value, OPERAND_TYPE_VALUE, 1),
             id |-> operand.g.lcIndex]
    [] condition.type = "Literal" ->
         [g |-> IF condition.value = TRUE
                  THEN push(g, activatorId, OPERATION_TRUE,
                            OPERAND_TYPE_VALUE, 0, OPERAND_TYPE_VALUE, 0)
                  ELSE push(g, activatorId, OPERATION_NOT,
                            OPERAND_TYPE_VALUE, 1, OPERAND_TYPE_VALUE, 0),
          id |-> g.lcIndex]
    [] OTHER ->
         [g |-> addError(g, "unsupported_condition"), id |-> g.lcIndex]

\* getOverrideOperation: the opcode, or 0 where the code throws
\* `Unknown override target` (no opcode of the table is 0)
getOverrideOperation(target) ==
  IF target \in DOMAIN overrideOperations THEN overrideOperations[target] ELSE 0

\* the arithmetic gvar assignment as lowered before the increment and
\* decrement opcodes were used: always the computing record and the
\* GVAR_SET record that reads it
generateArithmeticTwoRecords(g, action, activatorId, index) ==
  LET left == getOperand(g, action.left, -1)
      right == getOperand(left.g, action.right, -1)
      op == getArithmeticOperation(action.operation)
      resultId == right.g.lcIndex
  IN push(push(right.g, activatorId, op,
               left.type, left.value, right.type, right.value),
          activatorId, OPERATION_GVAR_SET,
          OPERAND_TYPE_VALUE, index, OPERAND_TYPE_LC, resultId)

\* the branch of generateAction for gvar[index] = left <operation> right
generateArithmetic(g, action, activatorId, index) ==
  LET left == getOperand(g, action.left, -1)
      right == getOperand(left.g, action.right, -1)
      isLeftSameGvar == left.type = OPERAND_TYPE_GVAR /\ left.value = index
      isRightSameGvar == right.type = OPERAND_TYPE_GVAR /\ right.value = index
      op == getArithmeticOperation(action.operation)
      resultId == right.g.lcIndex
  IN CASE action.operation = "+" /\ isLeftSameGvar ->
            push(right.g, activatorId, OPERATION_GVAR_INC,
                 OPERAND_TYPE_VALUE, index, right.type, right.value)
       [] action.operation = "-" /\ isLeftSameGvar ->
            push(right.g, activatorId, OPERATION_GVAR_DEC,
                 OPERAND_TYPE_VALUE, index, right.type, right.value)
       [] action.operation = "+" /\ isRightSameGvar ->
            push(right.g, activatorId, OPERATION_GVAR_INC,
                 OPERAND_TYPE_VALUE, index, left.type, left.value)
       [] OTHER ->
            push(push(right.g, activatorId, op,
                      left.type, left.value, right.type, right.value),
                 activatorId, OPERATION_GVAR_SET,
                 OPERAND_TYPE_VALUE, index, OPERAND_TYPE_LC, resultId)

\* lowers one body statement under the activator; returns the generator state
generateAction(g, action, activatorId) ==
  IF action.type # "Assignment" THEN g
  ELSE LET target == action.target
           value == action.value
  IN CASE target.t = "gvar" ->
         LET index == target.i IN
         IF action.operation # ""
           THEN generateArithmetic(g, action, activatorId, index)
           ELSE LET valueOperand == getOperand(g, value, -1)
                IN push(valueOperand.g, activatorId, OPERATION_GVAR_SET,
                        OPERAND_TYPE_VALUE, index,
                        valueOperand.type, valueOperand.value)
       [] target.t = "rc" ->
         LET channel == target.i IN
         IF channel < 0 \/ channel > 17
           THEN addError(g, "rc_out_of_range")
           ELSE LET valueOperand == getOperand(g, value, -1)
                IN push(valueOperand.g, activatorId,
                        OPERATION_RC_CHANNEL_OVERRIDE,
                        OPERAND_TYPE_VALUE, channel,
                        valueOperand.type, valueOperand.value)
       [] target.t = "override" ->
         LET operation == getOverrideOperation(target.name) IN
         IF operation = 0
           THEN [g EXCEPT !.thrown = TRUE]
           ELSE LET valueOperand == getOperand(g, value, -1)
                IN push(valueOperand.g, activatorId, operation,
                        valueOperand.type, valueOperand.value, 0, 0)
       [] target.t = "var" ->
         LET index == target.i IN
         IF action.operation # ""
           THEN LET left == getOperand(g, action.left, -1)
                    right == getOperand(left.g, action.right, -1)
                    op == CASE action.operation = "+" -> OPERATION_ADD
                            [] action.operation = "-" -> OPERATION_SUB
                            [] action.operation = "*" -> OPERATION_MUL
                            [] action.operation = "/" -> OPERATION_DIV
                            [] OTHER -> 0
                    resultId == right.g.lcIndex
                IN IF op = 0
                     THEN addError(right.g, "unsupported_operation")
                     ELSE push(push(right.g, activatorId, op, left.type,
                                    left.value, right.type, right.value),
                               activatorId, OPERATION_GVAR_SET,
                               OPERAND_TYPE_VALUE, index,
                               OPERAND_TYPE_LC, resultId)
           ELSE LET valueOperand == getOperand(g, value, -1)
                IN push(valueOperand.g, activatorId, OPERATION_GVAR_SET,
                        OPERAND_TYPE_VALUE, index,
                        valueOperand.type, valueOperand.value)
       [] OTHER -> addError(g, "invalid_assignment_target")

RECURSIVE generateBody(_, _, _)
\* for (const action of body) this.generateAction(action, activatorId);
\* an exception thrown by an action ends the loop
generateBody(g, body, activatorId) ==
  IF body = <<>> \/ g.thrown THEN g
  ELSE generateBody(generateAction(g, Head(body), activatorId),
                    Tail(body), activatorId)

(* --------------------------- event handlers ---------------------------- *)
\* on.arm as the earlier revision of the generator lowers it: one record
\* comparing the arm timer with the delay in milliseconds
generateOnArmOld(g, stmt) ==
  LET delay == stmt.delay
      delayMs == delay * 1000
      activatorId == g.lcIndex
      g1 == push(g, -1, OPERATION_GREATER_THAN, OPERAND_TYPE_FLIGHT, 0,
                 OPERAND_TYPE_VALUE, delayMs)
  IN generateBody(g1, stmt.body, activatorId)

generateOnArm(g, stmt) ==
  LET delay == stmt.delay
      conditionId == g.lcIndex
      g1 == push(g, -1, OPERATION_GREATER_THAN, OPERAND_TYPE_FLIGHT, 0,
                 OPERAND_TYPE_VALUE, 0)
      edgeId == g1.lcIndex
      g2 == push(g1, -1, OPERATION_EDGE, OPERAND_TYPE_LC, conditionId,
                 OPERAND_TYPE_VALUE, delay)
  IN generateBody(g2, stmt.body, edgeId)

generateOnAlways(g, stmt) ==
  LET activatorId == g.lcIndex
      g1 == push(g, -1, OPERATION_TRUE, OPERAND_TYPE_VALUE, 0,
                 OPERAND_TYPE_VALUE, 0)
  IN generateBody(g1, stmt.body, activatorId)

\* the value of `undefined` for a statement's conditionLcIndex
Undefined == -2

\* generateConditional with the body gated by this.lcIndex as read after the
\* condition was lowered, where the code keeps the slot generateCondition
\* returned
generateConditionalNextSlot(g, stmt, annot) ==
  IF stmt.condition.type = "null"
    THEN [g |-> g, conditionLcIndex |-> Undefined]
  ELSE IF stmt.reuseCondition # 0 /\ annot[stmt.reuseCondition] # Undefined
    THEN IF stmt.invertReuse
           THEN LET g1 == push(g, -1, OPERATION_NOT, OPERAND_TYPE_LC,
                               annot[stmt.reuseCondition],
                               OPERAND_TYPE_VALUE, 0)
                IN [g |-> generateBody(g1, stmt.body, g1.lcIndex),
                    conditionLcIndex |-> Undefined]
           ELSE [g |-> generateBody(g, stmt.body, g.lcIndex),
                 conditionLcIndex |-> Undefined]
  ELSE LET c == generateCondition(g, stmt.condition, -1)
       IN [g |-> generateBody(c.g, stmt.body, c.g.lcIndex),
           conditionLcIndex |-> c.g.lcIndex]

\* generateConditional without the reuse of an earlier statement's condition:
\* every statement lowers its own condition
generateConditionalNoReuse(g, stmt, annot) ==
  IF stmt.condition.type = "null"
    THEN [g |-> g, conditionLcIndex |-> Undefined]
  ELSE LET c == generateCondition(g, stmt.condition, -1)
       IN [g |-> generateBody(c.g, stmt.body, c.id),
           conditionLcIndex |-> c.id]

\* returns the generator state and the value of stmt.conditionLcIndex after
\* the call; annot[j] is the conditionLcIndex of the j-th statement of the
\* program, and stmt.reuseCondition is the position of the statement that
\* the mark refers to (0 when stmt carries no mark)
generateConditional(g, stmt, annot) ==
  IF stmt.condition.type = "null"
    THEN [g |-> g, conditionLcIndex |-> Undefined]
  ELSE IF stmt.reuseCondition # 0
    THEN LET conditionId == annot[stmt.reuseCondition] IN
         IF conditionId = Undefined
           THEN LET c == generateCondition(g, stmt.condition, -1)
                IN [g |-> generateBody(c.g, stmt.body, c.id),
                    conditionLcIndex |-> c.id]
           ELSE IF stmt.invertReuse
             THEN LET notId == g.lcIndex
                      g1 == push(g, -1, OPERATION_NOT, OPERAND_TYPE_LC,
                                 conditionId, OPERAND_TYPE_VALUE, 0)
                  IN [g |-> generateBody(g1, stmt.body, notId),
                      conditionLcIndex |-> Undefined]
             ELSE [g |-> generateBody(g, stmt.body, conditionId),
                   conditionLcIndex |-> Undefined]
    ELSE LET c == generateCondition(g, stmt.condition, -1)
         IN [g |-> generateBody(c.g, stmt.body, c.id),
             conditionLcIndex |-> c.id]

generateEdge(g, stmt) ==
  IF stmt.nargs < 3 THEN addError(g, "invalid_args")
  ELSE IF stmt.condition.type = "null" THEN addError(g, "invalid_args")
  ELSE LET c == generateCondition(g, stmt.condition, -1)
           edgeId == c.g.lcIndex
           g1 == push(c.g, -1, OPERATION_EDGE, OPERAND_TYPE_LC, c.id,
                      OPERAND_TYPE_VALUE, stmt.duration)
       IN generateBody(g1, stmt.body, edgeId)

generateSticky(g, stmt) ==
  IF stmt.nargs < 3 THEN addError(g, "invalid_args")
  ELSE IF stmt.onCondition.type = "null" \/ stmt.offCondition.type = "null"
    THEN addError(g, "invalid_args")
  ELSE LET on == generateCondition(g, stmt.onCondition, -1)
           off == generateCondition(on.g, stmt.offCondition, -1)
           stickyId == off.g.lcIndex
           g1 == push(off.g, -1, OPERATION_STICKY, OPERAND_TYPE_LC, on.id,
                      OPERAND_TYPE_LC, off.id)
       IN generateBody(g1, stmt.body, stickyId)

generateDelay(g, stmt) ==
  IF stmt.nargs < 3 THEN addError(g, "invalid_args")
  ELSE IF stmt.condition.type = "null" THEN addError(g, "invalid_args")
  ELSE LET c == generateCondition(g, stmt.condition, -1)
           delayId == c.g.lcIndex
           g1 == push(c.g, -1, OPERATION_DELAY, OPERAND_TYPE_LC, c.id,
                      OPERAND_TYPE_VALUE, stmt.duration)
       IN generateBody(g1, stmt.body, delayId)

\* onMs and offMs are numbers here; a non-literal duration is nargs-valid
\* but fails the typeof test, which numeric |-> FALSE stands for
generateTimer(g, stmt) ==
  IF stmt.nargs < 3 THEN addError(g, "invalid_args")
  ELSE IF ~stmt.numeric THEN addError(g, "invalid_args")
  ELSE IF stmt.onMs <= 0 \/ stmt.offMs <= 0 THEN addError(g, "invalid_args")
  ELSE LET timerId == g.lcIndex
           g1 == push(g, -1, OPERATION_TIMER, OPERAND_TYPE_VALUE, stmt.onMs,
                      OPERAND_TYPE_VALUE, stmt.offMs)
       IN generateBody(g1, stmt.body, timerId)

generateWhenChanged(g, stmt) ==
  IF stmt.nargs < 3 THEN addError(g, "invalid_args")
  ELSE IF ~stmt.numeric THEN addError(g, "invalid_args")
  ELSE IF stmt.threshold <= 0 THEN addError(g, "invalid_args")
  ELSE LET valueOperand == getOperand(g, stmt.value, -1)
           deltaId == valueOperand.g.lcIndex
           g1 == push(valueOperand.g, -1, OPERATION_DELTA,
                      valueOperand.type, valueOperand.value,
                      OPERAND_TYPE_VALUE, stmt.threshold)
       IN generateBody(g1, stmt.body, deltaId)

(* --------------------------- input programs ---------------------------- *)
\* longest body built from the core assignments
MaxBody == 2

hd == Path("flight.homeDistance")
cellV == Path("flight.cellVoltage")
yaw == Path("flight.yaw")

setG0 == Assign(Gvar(0), Num(3))
setVtx == Assign(Override("override.vtx.power"), Num(3))
incG0 == AssignOp(Gvar(0), "+", Gvar(0), Num(3))

CoreActions == {setG0, setVtx, incG0}

ArithOperators == {"+", "-", "*", "/", "%"}
OverrideTargets ==
  {"override.throttleScale", "override.throttle", "override.vtx.power",
   "override.vtx.band", "override.vtx.channel"}

Actions ==
  CoreActions
  \cup {Assign(Gvar(1), yaw), Assign(Gvar(0), Abs(yaw)),
        Assign(Gvar(0), Arith("*", Gvar(1), Num(3))),
        Assign(Gvar(0), Path("flight.bogus")), Assign(Gvar(0), OtherCall),
        Assign(OtherTarget, Num(3)), [type |-> "ExpressionStatement"]}
  \cup {AssignOp(Gvar(n), op, lr[1], lr[2]) :
          n \in {0, 1}, op \in ArithOperators,
          lr \in {<<Gvar(0), Num(3)>>, <<Num(3), Gvar(0)>>,
                  <<Gvar(0), Gvar(0)>>, <<Gvar(1), Num(3)>>,
                  <<yaw, Gvar(0)>>, <<Gvar(1), yaw>>}}
  \cup {Assign(Rc(i), Num(1500)) : i \in {0, 17, 18}}
  \cup {Assign(Var(7), Num(3)), Assign(Var(7), yaw), Assign(Gvar(0), Var(7))}
  \cup {AssignOp(Var(7), op, lr[1], lr[2]) :
          op \in ArithOperators,
          lr \in {<<Var(7), Num(3)>>, <<Num(3), Var(7)>>,
                  <<Gvar(1), Num(3)>>}}
  \cup {Assign(Override(T), Num(v)) :
          T \in OverrideTargets \cup {"override.armSafety", "override.bogus"},
          v \in {0, 3}}

RECURSIVE SeqsUpTo(_, _)
SeqsUpTo(S, n) ==
  IF n = 0 THEN {<<>>}
  ELSE LET shorter == SeqsUpTo(S, n - 1)
       IN shorter \cup {Append(q, x) : q \in shorter, x \in S}

CoreBodies == SeqsUpTo(CoreActions, MaxBody)
Bodies == CoreBodies \cup {<<a>> : a \in Actions}

cmp(op) == Binary(op, hd, Num(100))
gtHd == cmp(">")
ltCell == Binary("<", cellV, Num(330))
failsafe == Member("flight.mode.failsafe")

LeafConditions ==
  {cmp(op) : op \in {"===", "==", ">", "<", ">=", "<=", "!==", "!="}}
  \cup {ltCell, failsafe, Literal(TRUE), Literal(FALSE),
        Binary(">", Abs(yaw), Num(10))}

CompoundConditions ==
  {Unary(gtHd), Unary(failsafe),
   Logical("&&", gtHd, ltCell), Logical("||", gtHd, ltCell),
   Logical("||", failsafe,
           Logical("&&", ltCell, Binary(">", hd, Num(500)))),
   Logical("&&", Logical("||", gtHd, ltCell), failsafe),
   Logical("&&", Binary(">", Abs(yaw), Num(10)), ltCell),
   Unary(Logical("&&", gtHd, ltCell))}

\* the well-formed condition trees, and one of a node type that is not a
\* condition
Conditions == LeafConditions \cup CompoundConditions \cup {CallCondition}
PatternConditions ==
  {gtHd, cmp("!=="), failsafe, Unary(gtHd), Logical("&&", gtHd, ltCell),
   Logical("&&", Logical("||", gtHd, ltCell), failsafe), CallCondition}

If(cond, body) ==
  [type |-> "EventHandler", handler |-> "ifthen", condition |-> cond,
   body |-> body, reuseCondition |-> 0, invertReuse |-> FALSE]
\* an if statement the optimizer marked to reuse statement j's condition
IfReuse(cond, body, j, invert) ==
  [type |-> "EventHandler", handler |-> "ifthen", condition |-> cond,
   body |-> body, reuseCondition |-> j, invertReuse |-> invert]
OnArm(delay, body) ==
  [type |-> "EventHandler", handler |-> "on.arm", delay |-> delay,
   body |-> body]
OnAlways(body) ==
  [type |-> "EventHandler", handler |-> "on.always", body |-> body]
Edge(cond, duration, body, nargs) ==
  [type |-> "EventHandler", handler |-> "edge", condition |-> cond,
   duration |-> duration, body |-> body, nargs |-> nargs]
Sticky(on, off, body, nargs) ==
  [type |-> "EventHandler", handler |-> "sticky", onCondition |-> on,
   offCondition |-> off, body |-> body, nargs |-> nargs]
Delay(cond, duration, body, nargs) ==
  [type |-> "EventHandler", handler |-> "delay", condition |-> cond,
   duration |-> duration, body |-> body, nargs |-> nargs]
Timer(onMs, offMs, numeric, body, nargs) ==
  [type |-> "EventHandler", handler |-> "timer", onMs |-> onMs,
   offMs |-> offMs, numeric |-> numeric, body |-> body, nargs |-> nargs]
WhenChanged(value, threshold, numeric, body, nargs) ==
  [type |-> "EventHandler", handler |-> "whenChanged", value |-> value,
   threshold |-> threshold, numeric |-> numeric, body |-> body,
   nargs |-> nargs]

IfStatements ==
  {If(gtHd, b) : b \in Bodies}
  \cup {If(c, b) : c \in Conditions, b \in {<<>>, <<setG0>>, <<setVtx>>}}
  \cup {If(cmp(op), <<Assign(Override(T), Num(v))>>) :
          op \in {"===", ">", "<"}, T \in OverrideTargets, v \in {0, 3}}
  \cup {If(NoCondition, <<setG0>>)}
OnArmStatements == {OnArm(d, b) : d \in {0, 2}, b \in CoreBodies}
OnAlwaysStatements == {OnAlways(b) : b \in CoreBodies}
EdgeStatements ==
  {Edge(c, 1000, b, 3) : c \in PatternConditions, b \in {<<>>, <<setG0>>}}
  \cup {Edge(gtHd, 1000, <<setG0>>, 2), Edge(NoCondition, 1000, <<setG0>>, 3),
        Edge(gtHd, 0, <<setVtx>>, 3)}
StickyStatements ==
  {Sticky(on, off, <<setG0>>, 3) :
     on \in {gtHd, Logical("&&", gtHd, ltCell)}, off \in {ltCell, failsafe}}
  \cup {Sticky(gtHd, ltCell, <<>>, 3), Sticky(gtHd, ltCell, <<setG0>>, 2),
        Sticky(gtHd, NoCondition, <<setG0>>, 3),
        Sticky(Unary(gtHd), cmp(">="), <<setG0>>, 3)}
DelayStatements ==
  {Delay(c, 2000, b, 3) : c \in PatternConditions, b \in {<<>>, <<setG0>>}}
  \cup {Delay(gtHd, 2000, <<setG0>>, 2),
        Delay(NoCondition, 2000, <<setG0>>, 3)}
TimerStatements ==
  {Timer(on, off, TRUE, b, 3) :
     on \in {0, 1000}, off \in {-1, 500}, b \in {<<>>, <<setG0>>}}
  \cup {Timer(1000, 500, FALSE, <<setG0>>, 3),
        Timer(1000, 500, TRUE, <<setG0>>, 2)}
WhenChangedStatements ==
  {WhenChanged(v, th, TRUE, b, 3) :
     v \in {Path("flight.altitude"), Gvar(0), Path("flight.bogus")},
     th \in {0, 50}, b \in {<<>>, <<setG0>>}}
  \cup {WhenChanged(Gvar(0), 50, FALSE, <<setG0>>, 3),
        WhenChanged(Gvar(0), 50, TRUE, <<setG0>>, 2)}
DeclarationStatements ==
  {[type |-> t] : t \in {"Destructuring", "LetDeclaration", "VarDeclaration"}}
UnsupportedStatements == {[type |-> "ExpressionStatement"]}

\* statements that another statement may follow in a program
CoreStatements ==
  {If(gtHd, <<setG0>>), Edge(gtHd, 1000, <<setG0>>, 3),
   [type |-> "Destructuring"], [type |-> "ExpressionStatement"]}
\* statements of the programs made of one statement repeated
RepeatStatements == {OnAlways(<<>>), If(gtHd, <<setG0>>)}

isIf(s) == s.type = "EventHandler" /\ s.handler = "ifthen"
isMarked(s) == isIf(s) /\ s.reuseCondition # 0

\* programs of up to MaxStmts statements take every statement but the last
\* from CoreStatements and the marked statements; the longer programs repeat
\* one statement
CanAppend(prog, stmt) ==
  \/ /\ Len(prog) < MaxStmts
     /\ \A i \in 1..Len(prog) : prog[i] \in CoreStatements \/ isMarked(prog[i])
  \/ /\ Len(prog) < MaxRepeat
     /\ stmt \in RepeatStatements
     /\ \A i \in 1..Len(prog) : prog[i] = stmt

\* the marks common-subexpression elimination puts on a statement that
\* follows prog: reuse of the condition slot that an earlier if statement
\* emitted, as is or negated
ReuseTargets(prog) ==
  {j \in 1..Len(prog) : isIf(prog[j]) /\ ~isMarked(prog[j])
                        /\ prog[j].condition.type # "null"}
ReuseStatements(prog) ==
  {IfReuse(prog[j].condition, b, j, FALSE) :
     j \in ReuseTargets(prog), b \in {<<>>, <<setG0>>, <<setG0, setVtx>>}}
  \cup {IfReuse(Unary(prog[j].condition), b, j, TRUE) :
     j \in ReuseTargets(prog), b \in {<<>>, <<setG0>>, <<setG0, setVtx>>}}

(* ----------------------------- Decompiler ------------------------------ *)
\* The decompiling operators return the text (s) and the warnings they push
\* on this.warnings (w), in the order the code pushes them.

\* operandToProperty.flight, as buildOperandMapping derives it from the API
\* definitions of the FLIGHT operands
operandToProperty == FLIGHT_PARAM_NAMES

getPropertyFromOperand(objectType, operandValue) ==
  IF objectType = OPERAND_TYPE_FLIGHT /\ operandValue \in DOMAIN operandToProperty
    THEN "flight." \o operandToProperty[operandValue]
    ELSE ""

\* allConditions.find(lc => lc.index === value): position of the first record
\* with that index, 0 when there is none
find(all, value) ==
  LET hits == {i \in 1..Len(all) : all[i].index = value}
  IN IF hits = {} THEN 0 ELSE CHOOSE i \in hits : \A j \in hits : i <= j

\* strs.slice(lo - 1, hi).join(sep)
RECURSIVE joinRange(_, _, _, _)
joinRange(strs, sep, lo, hi) ==
  IF lo > hi THEN ""
  ELSE IF lo = hi THEN strs[lo]
  ELSE LET mid == (lo + hi) \div 2
       IN joinRange(strs, sep, lo, mid) \o sep
          \o joinRange(strs, sep, mid + 1, hi)
join(strs, sep) == joinRange(strs, sep, 1, Len(strs))

\* the concatenation of the sequences seqs[lo], ..., seqs[hi]
RECURSIVE concatRange(_, _, _)
concatRange(seqs, lo, hi) ==
  IF lo > hi THEN <<>>
  ELSE IF lo = hi THEN seqs[lo]
  ELSE LET mid == (lo + hi) \div 2
       IN concatRange(seqs, lo, mid) \o concatRange(seqs, mid + 1, hi)
concat(seqs) == concatRange(seqs, 1, Len(seqs))

RECURSIVE decompileOperand(_, _, _, _)
RECURSIVE decompileCondition(_, _, _)

\* resolve: whether allConditions was passed (it is null otherwise)
decompileOperand(type, value, all, resolve) ==
  CASE type = OPERAND_TYPE_VALUE -> [s |-> ToString(value), w |-> <<>>]
    [] type = OPERAND_TYPE_GVAR ->
         [s |-> "gvar[" \o ToString(value) \o "]", w |-> <<>>]
    [] type = OPERAND_TYPE_RC_CHANNEL ->
         [s |-> "rc[" \o ToString(value) \o "]", w |-> <<>>]
    [] type \in {OPERAND_TYPE_FLIGHT, OPERAND_TYPE_WAYPOINTS} ->
         LET prop == getPropertyFromOperand(type, value)
             objName == IF type = OPERAND_TYPE_FLIGHT
                          THEN "flight" ELSE "waypoint"
         IN IF prop # "" THEN [s |-> prop, w |-> <<>>]
            ELSE [s |-> objName \o "." \o getFlightParamName(value),
                  w |-> <<>>]
    [] type = OPERAND_TYPE_FLIGHT_MODE ->
         IF value \in DOMAIN flightModeNames
           THEN [s |-> "flight.mode." \o flightModeNames[value], w |-> <<>>]
           ELSE [s |-> "flight.mode[" \o ToString(value)
                       \o "] /* unknown mode */",
                 w |-> <<"Unknown flight mode value " \o ToString(value)>>]
    [] type = OPERAND_TYPE_LC ->
         IF resolve /\ find(all, value) # 0
           THEN decompileCondition(all[find(all, value)], all, resolve)
           ELSE [s |-> "logicCondition[" \o ToString(value) \o "]",
                 w |-> <<>>]
    [] type = OPERAND_TYPE_PID ->
         [s |-> "/* PID[" \o ToString(value) \o "] */",
          w |-> <<"PID operand (value " \o ToString(value)
                  \o ") is not supported in JavaScript API">>]
    [] OTHER ->
         [s |-> "/* unknown operand type " \o ToString(type) \o ", value "
                \o ToString(value) \o " */",
          w |-> <<"Unknown operand type " \o ToString(type)>>]

\* the switch of decompileCondition: the expression returned for operation op
\* over the decompiled operands left and right
conditionText(op, left, right) ==
  LET scale == IF right = "0" THEN "500" ELSE right IN
  CASE op = OPERATION_TRUE -> "true"
       [] op = OPERATION_EQUAL -> left \o " === " \o right
       [] op = OPERATION_GREATER_THAN ->
            left \o " > " \o right
       [] op = OPERATION_LOWER_THAN ->
            left \o " < " \o right
       [] op = OPERATION_LOW -> left \o ".low"
       [] op = OPERATION_MID -> left \o ".mid"
       [] op = OPERATION_HIGH -> left \o ".high"
       [] op = OPERATION_AND -> left \o " && " \o right
       [] op = OPERATION_OR -> left \o " || " \o right
       [] op = OPERATION_NOT -> "!" \o left
       [] op = OPERATION_XOR ->
            "((" \o left \o ") ? !(" \o right \o ") : (" \o right
                   \o "))"
       [] op = OPERATION_NAND ->
            "!(" \o left \o " && " \o right \o ")"
       [] op = OPERATION_NOR ->
            "!(" \o left \o " || " \o right \o ")"
       [] op = OPERATION_APPROX_EQUAL ->
            left \o " === " \o right
       [] op = OPERATION_EDGE ->
            left \o " /* edge with duration " \o right \o "ms */"
       [] op = OPERATION_STICKY ->
            left \o " /* sticky (on: " \o left \o ", off: " \o right
                   \o ") */"
       [] op = OPERATION_DELAY ->
            left \o " /* delay " \o right \o "ms */"
       [] op = OPERATION_ADD ->
            "(" \o left \o " + " \o right \o ")"
       [] op = OPERATION_SUB ->
            "(" \o left \o " - " \o right \o ")"
       [] op = OPERATION_MUL ->
            "(" \o left \o " * " \o right \o ")"
       [] op = OPERATION_DIV ->
            "(" \o left \o " / " \o right \o ")"
       [] op = OPERATION_MODULUS ->
            "(" \o left \o " % " \o right \o ")"
       [] op = OPERATION_MIN ->
            "Math.min(" \o left \o ", " \o right \o ")"
       [] op = OPERATION_MAX ->
            "Math.max(" \o left \o ", " \o right \o ")"
       [] op = OPERATION_SIN ->
            "(Math.sin(" \o left \o " * Math.PI / 180) * " \o scale
                   \o ")"
       [] op = OPERATION_COS ->
            "(Math.cos(" \o left \o " * Math.PI / 180) * " \o scale
                   \o ")"
       [] op = OPERATION_TAN ->
            "(Math.tan(" \o left \o " * Math.PI / 180) * " \o scale
                   \o ")"
       [] op = OPERATION_MAP_INPUT ->
            "Math.min(1000, Math.max(0, Math.round(" \o left
                   \o " * 1000 / " \o right \o ")))"
       [] op = OPERATION_MAP_OUTPUT ->
            "Math.min(" \o right \o ", Math.max(0, Math.round("
                   \o left \o " * " \o right \o " / 1000)))"
       [] op = OPERATION_TIMER ->
            "/* timer(" \o left \o "ms ON, " \o right
                   \o "ms OFF) */ true"
       [] op = OPERATION_DELTA ->
            "/* delta(" \o left \o ", threshold " \o right
                   \o ") */ true"
       [] OTHER ->
            "true"

conditionOperations ==
  {OPERATION_TRUE, OPERATION_EQUAL, OPERATION_GREATER_THAN,
   OPERATION_LOWER_THAN, OPERATION_LOW, OPERATION_MID, OPERATION_HIGH,
   OPERATION_AND, OPERATION_OR, OPERATION_NOT, OPERATION_XOR,
   OPERATION_NAND, OPERATION_NOR, OPERATION_APPROX_EQUAL, OPERATION_EDGE,
   OPERATION_STICKY, OPERATION_DELAY, OPERATION_ADD, OPERATION_SUB,
   OPERATION_MUL, OPERATION_DIV, OPERATION_MODULUS, OPERATION_MIN,
   OPERATION_MAX, OPERATION_SIN, OPERATION_COS, OPERATION_TAN,
   OPERATION_MAP_INPUT, OPERATION_MAP_OUTPUT, OPERATION_TIMER,
   OPERATION_DELTA}

\* the warnings the switch of decompileCondition pushes
conditionWarnings(op) ==
  IF op = OPERATION_APPROX_EQUAL
    THEN <<"APPROX_EQUAL operation decompiled as === (1% tolerance not preserved)">>
  ELSE IF op \notin conditionOperations
    THEN <<"Unknown operation " \o ToString(op) \o " ("
           \o getOperationName(op) \o ") in condition">>
  ELSE <<>>

decompileCondition(lc, all, resolve) ==
  LET l == decompileOperand(lc.operandAType, lc.operandAValue, all, resolve)
      r == decompileOperand(lc.operandBType, lc.operandBValue, all, resolve)
  IN [s |-> conditionText(lc.operation, l.s, r.s),
      w |-> l.w \o r.w \o conditionWarnings(lc.operation)]

axisName(axisIndex) ==
  CASE axisIndex = 0 -> "roll"
    [] axisIndex = 1 -> "pitch"
    [] axisIndex = 2 -> "yaw"
    [] OTHER -> ToString(axisIndex)

arithmeticOperations ==
  {OPERATION_ADD, OPERATION_SUB, OPERATION_MUL, OPERATION_DIV}

\* the switch of decompileAction: the statement returned for operation op
\* with operand A value aValue, over the decompiled operand B (value) and,
\* for the arithmetic operations, the decompiled operand A (target)
actionText(op, aValue, value, target) ==
  LET a == ToString(aValue)
      sym == CASE op = OPERATION_ADD -> "+" [] op = OPERATION_SUB -> "-"
               [] op = OPERATION_MUL -> "*" [] OTHER -> "/"
  IN
  CASE op = OPERATION_GVAR_SET ->
            "gvar[" \o a \o "] = " \o value \o ";"
       [] op = OPERATION_GVAR_INC ->
            "gvar[" \o a \o "] = gvar[" \o a \o "] + " \o value
                   \o ";"
       [] op = OPERATION_GVAR_DEC ->
            "gvar[" \o a \o "] = gvar[" \o a \o "] - " \o value
                   \o ";"
       [] op = OPERATION_OVERRIDE_THROTTLE_SCALE ->
            "override.throttleScale = " \o value \o ";"
       [] op = OPERATION_OVERRIDE_THROTTLE ->
            "override.throttle = " \o value \o ";"
       [] op = OPERATION_SET_VTX_POWER_LEVEL ->
            "override.vtx.power = " \o value \o ";"
       [] op = OPERATION_SET_VTX_BAND ->
            "override.vtx.band = " \o value \o ";"
       [] op = OPERATION_SET_VTX_CHANNEL ->
            "override.vtx.channel = " \o value \o ";"
       [] op = OPERATION_OVERRIDE_ARMING_SAFETY ->
            "override.armSafety = true;"
       [] op = OPERATION_SET_OSD_LAYOUT ->
            "override.osdLayout = " \o value \o ";"
       [] op = OPERATION_RC_CHANNEL_OVERRIDE ->
            "rc[" \o a \o "] = " \o value \o ";"
       [] op = OPERATION_LOITER_OVERRIDE ->
            "override.loiterRadius = " \o value \o ";"
       [] op = OPERATION_OVERRIDE_MIN_GROUND_SPEED ->
            "override.minGroundSpeed = " \o value \o ";"
       [] op = OPERATION_SWAP_ROLL_YAW ->
            "override.swapRollYaw = true;"
       [] op = OPERATION_INVERT_ROLL ->
            "override.invertRoll = true;"
       [] op = OPERATION_INVERT_PITCH ->
            "override.invertPitch = true;"
       [] op = OPERATION_INVERT_YAW ->
            "override.invertYaw = true;"
       [] op = OPERATION_SET_HEADING_TARGET ->
            "override.headingTarget = " \o value \o ";"
       [] op = OPERATION_SET_PROFILE ->
            "override.profile = " \o value \o ";"
       [] op = OPERATION_FLIGHT_AXIS_ANGLE_OVERRIDE ->
            "override.flightAxis." \o axisName(aValue)
                   \o ".angle = " \o value \o ";"
       [] op = OPERATION_FLIGHT_AXIS_RATE_OVERRIDE ->
            "override.flightAxis." \o axisName(aValue)
                   \o ".rate = " \o value \o ";"
       [] op = OPERATION_SET_GIMBAL_SENSITIVITY ->
            "override.gimbalSensitivity = " \o value \o ";"
       [] op = OPERATION_LED_PIN_PWM ->
            "override.ledPin(" \o a \o ", " \o value \o ");"
       [] op = OPERATION_PORT_SET ->
            "/* override.port(" \o a \o ", " \o value
                   \o "); */ // PORT_SET - may not be supported"
       [] op = OPERATION_DISABLE_GPS_FIX ->
            "override.disableGpsFix = true;"
       [] op = OPERATION_RESET_MAG_CALIBRATION ->
            "override.resetMagCalibration = true;"
       [] op \in arithmeticOperations ->
            target \o " = " \o target \o " " \o sym \o " "
                   \o value \o ";"
       [] OTHER ->
            "// Unknown operation: " \o getOperationName(op)

actionOperations ==
  {OPERATION_GVAR_SET, OPERATION_GVAR_INC, OPERATION_GVAR_DEC,
   OPERATION_OVERRIDE_THROTTLE_SCALE, OPERATION_OVERRIDE_THROTTLE,
   OPERATION_SET_VTX_POWER_LEVEL, OPERATION_SET_VTX_BAND,
   OPERATION_SET_VTX_CHANNEL, OPERATION_OVERRIDE_ARMING_SAFETY,
   OPERATION_SET_OSD_LAYOUT, OPERATION_RC_CHANNEL_OVERRIDE,
   OPERATION_LOITER_OVERRIDE, OPERATION_OVERRIDE_MIN_GROUND_SPEED,
   OPERATION_SWAP_ROLL_YAW, OPERATION_INVERT_ROLL, OPERATION_INVERT_PITCH,
   OPERATION_INVERT_YAW, OPERATION_SET_HEADING_TARGET, OPERATION_SET_PROFILE,
   OPERATION_FLIGHT_AXIS_ANGLE_OVERRIDE, OPERATION_FLIGHT_AXIS_RATE_OVERRIDE,
   OPERATION_SET_GIMBAL_SENSITIVITY, OPERATION_LED_PIN_PWM,
   OPERATION_PORT_SET, OPERATION_DISABLE_GPS_FIX,
   OPERATION_RESET_MAG_CALIBRATION, OPERATION_ADD, OPERATION_SUB,
   OPERATION_MUL, OPERATION_DIV}

\* the warnings the switch of decompileAction pushes
actionWarnings(op) ==
  CASE op = OPERATION_FLIGHT_AXIS_ANGLE_OVERRIDE ->
         <<"FLIGHT_AXIS_ANGLE_OVERRIDE may need verification - check API syntax">>
    [] op = OPERATION_FLIGHT_AXIS_RATE_OVERRIDE ->
         <<"FLIGHT_AXIS_RATE_OVERRIDE may need verification - check API syntax">>
    [] op = OPERATION_LED_PIN_PWM ->
         <<"LED_PIN_PWM may need verification - check API syntax">>
    [] op = OPERATION_PORT_SET ->
         <<"PORT_SET may not be available in JavaScript API">>
    [] op \notin actionOperations ->
         <<"Unknown operation " \o ToString(op) \o " ("
           \o getOperationName(op) \o ") in action">>
    [] OTHER -> <<>>

decompileAction(lc, all, resolve) ==
  LET v == decompileOperand(lc.operandBType, lc.operandBValue, all, resolve)
      target == IF lc.operation \in arithmeticOperations
                  THEN decompileOperand(lc.operandAType, lc.operandAValue,
                                        all, resolve)
                  ELSE [s |-> "", w |-> <<>>]
  IN [s |-> actionText(lc.operation, lc.operandAValue, v.s, target.s),
      w |-> v.w \o actionWarnings(lc.operation) \o target.w]

\* the logic condition object the configurator builds from one CLI command
\* `logic <slot> <enabled> <activator> <op> <A_type> <A_value> <B_type>
\* <B_value> <flags>`
parseLogicCommand(cmd) ==
  [index |-> cmd[1], enabled |-> cmd[2], activatorId |-> cmd[3],
   operation |-> cmd[4], operandAType |-> cmd[5], operandAValue |-> cmd[6],
   operandBType |-> cmd[7], operandBValue |-> cmd[8], flags |-> cmd[9]]

parseLogicCommands(cmds) ==
  [k \in 1..Len(cmds) |-> parseLogicCommand(cmds[k])]

\* the filter of the earlier decompiler: every enabled record of the table
filterEnabledNoStop(logicConditions) ==
  SelectSeq(logicConditions, LAMBDA lc : lc.enabled # 0)

\* the loop of decompile that collects the enabled records and stops at the
\* first unused slot
filterEnabled(logicConditions) ==
  LET unused == {i \in 1..Len(logicConditions) :
                   /\ logicConditions[i].enabled = 0
                   /\ logicConditions[i].operation = 0
                   /\ logicConditions[i].activatorId = -1}
      stop == IF unused = {} THEN Len(logicConditions) + 1
              ELSE CHOOSE i \in unused : \A j \in unused : i <= j
  IN SelectSeq(SubSeq(logicConditions, 1, stop - 1),
               LAMBDA lc : lc.enabled # 0)

referencedBySpecialOps(conditions) ==
  {conditions[i].operandAValue :
     i \in {k \in 1..Len(conditions) :
              conditions[k].operation \in {OPERATION_EDGE, OPERATION_DELAY,
                                           OPERATION_STICKY}}}
  \cup {conditions[i].operandBValue :
     i \in {k \in 1..Len(conditions) :
              conditions[k].operation = OPERATION_STICKY}}

NoActivator ==
  [index |-> -1, enabled |-> 0, activatorId |-> -1, operation |-> 0,
   operandAType |-> 0, operandAValue |-> 0, operandBType |-> 0,
   operandBValue |-> 0, flags |-> 0]

indices(lcs) == {lcs[k].index : k \in 1..Len(lcs)}

\* one pass of the second loop of groupConditions, for the record lc; st
\* holds the groups, the processed set and the warnings
groupRoot(conditions, lc, st) ==
  IF lc.index \in st.processed THEN st
  ELSE IF lc.index \in referencedBySpecialOps(conditions)
          /\ lc.activatorId = -1
    THEN [st EXCEPT !.processed = @ \cup {lc.index}]
  ELSE IF lc.activatorId = -1
    THEN LET actions ==
               SelectSeq(conditions,
                         LAMBDA action : action.activatorId = lc.index)
         IN [groups |-> Append(st.groups,
                               [hasActivator |-> TRUE, activator |-> lc,
                                actions |-> actions]),
             processed |-> st.processed \cup {lc.index}
                             \cup indices(actions),
             warnings |-> st.warnings]
  ELSE st

\* one pass of the third loop of groupConditions: the orphaned records
groupOrphan(conditions, lc, st) ==
  IF lc.index \notin st.processed
    THEN [groups |-> Append(st.groups,
                            [hasActivator |-> FALSE,
                             activator |-> NoActivator,
                             actions |-> <<lc>>]),
          processed |-> st.processed \cup {lc.index},
          warnings |-> Append(st.warnings,
                         "Logic condition " \o ToString(lc.index)
                         \o " has no valid activator")]
    ELSE st

\* the passes lo..hi of the second (orphans = FALSE) or third loop, in
\* order; the test on first always holds and has the passes lo..mid
\* evaluated before the passes mid+1..hi begin
RECURSIVE groupLoop(_, _, _, _, _)
groupLoop(conditions, orphans, lo, hi, st) ==
  IF lo > hi THEN st
  ELSE IF lo = hi
    THEN IF orphans THEN groupOrphan(conditions, conditions[lo], st)
         ELSE groupRoot(conditions, conditions[lo], st)
  ELSE LET mid == (lo + hi) \div 2
           first == groupLoop(conditions, orphans, lo, mid, st)
       IN IF Len(first.groups) >= 0
            THEN groupLoop(conditions, orphans, mid + 1, hi, first)
            ELSE first

groupConditions(conditions) ==
  groupLoop(conditions, TRUE, 1, Len(conditions),
    groupLoop(conditions, FALSE, 1, Len(conditions),
              [groups |-> <<>>, processed |-> {}, warnings |-> <<>>]))

\* type "" stands for null; the fields a pattern type does not have are ""
NoPattern ==
  [type |-> "", condition |-> "", duration |-> "", onCondition |-> "",
   offCondition |-> "", onMs |-> "", offMs |-> "", value |-> "",
   threshold |-> "", w |-> <<>>]

detectSpecialPattern(group, all) ==
  LET activator == group.activator
      op == activator.operation
      aLC == find(all, activator.operandAValue)
      bLC == find(all, activator.operandBValue)
  IN IF ~group.hasActivator THEN NoPattern
     ELSE IF op = OPERATION_EDGE /\ aLC # 0
       THEN LET c == decompileCondition(all[aLC], all, TRUE)
            IN [NoPattern EXCEPT !.type = "edge", !.condition = c.s,
                  !.duration = ToString(activator.operandBValue), !.w = c.w]
     ELSE IF op = OPERATION_STICKY /\ aLC # 0 /\ bLC # 0
       THEN LET on == decompileCondition(all[aLC], all, TRUE)
                off == decompileCondition(all[bLC], all, TRUE)
            IN [NoPattern EXCEPT !.type = "sticky", !.onCondition = on.s,
                  !.offCondition = off.s, !.w = on.w \o off.w]
     ELSE IF op = OPERATION_DELAY /\ aLC # 0
       THEN LET c == decompileCondition(all[aLC], all, TRUE)
            IN [NoPattern EXCEPT !.type = "delay", !.condition = c.s,
                  !.duration = ToString(activator.operandBValue), !.w = c.w]
     ELSE IF op = OPERATION_TIMER
       THEN [NoPattern EXCEPT !.type = "timer",
               !.onMs = ToString(activator.operandAValue),
               !.offMs = ToString(activator.operandBValue)]
     ELSE IF op = OPERATION_DELTA
       THEN LET v == decompileOperand(activator.operandAType,
                                      activator.operandAValue, all, TRUE)
            IN [NoPattern EXCEPT !.type = "whenChanged", !.value = v.s,
                  !.threshold = ToString(activator.operandBValue),
                  !.w = v.w]
     ELSE NoPattern

\* group.actions.map(a => this.decompileAction(a, allConditions))
texts(rs) == [k \in 1..Len(rs) |-> rs[k].s]
pushed(rs) == concat([k \in 1..Len(rs) |-> rs[k].w])

gather(rs) == [s |-> texts(rs), w |-> pushed(rs)]

decompileActions(actions, all) ==
  gather([k \in 1..Len(actions) |-> decompileAction(actions[k], all, TRUE)])

indentBody(actions) ==
  join([k \in 1..Len(actions) |-> "  " \o actions[k]], "\n")

\* the call decompileGroup returns for a detected pattern and a body
patternText(pattern, body) ==
  LET tail == "() => {\n" \o body \o "\n});"
  IN CASE pattern.type = "edge" ->
            "edge(() => " \o pattern.condition \o ", { duration: "
            \o pattern.duration \o " }, " \o tail
       [] pattern.type = "sticky" ->
            "sticky(() => " \o pattern.onCondition \o ", () => "
            \o pattern.offCondition \o ", " \o tail
       [] pattern.type = "delay" ->
            "delay(() => " \o pattern.condition \o ", { duration: "
            \o pattern.duration \o " }, " \o tail
       [] pattern.type = "timer" ->
            "timer(" \o pattern.onMs \o ", " \o pattern.offMs \o ", "
            \o tail
       [] OTHER ->
            "whenChanged(" \o pattern.value \o ", " \o pattern.threshold
            \o ", " \o tail

\* decompileGroup for a group with an activator and a detected pattern
decompilePatternGroup(group, pattern, acts) ==
  IF acts.s = <<>>
    THEN [s |-> "",
          w |-> pattern.w
                \o <<pattern.type \o "() at index "
                     \o ToString(group.activator.index)
                     \o " has no actions">>,
          pattern |-> pattern, actions |-> acts.s]
    ELSE [s |-> patternText(pattern, indentBody(acts.s)),
          w |-> pattern.w \o acts.w,
          pattern |-> pattern, actions |-> acts.s]

\* decompileGroup for a group with an activator and no pattern; condition
\* is the decompiled activator
decompileIfGroup(group, condition, acts) ==
  IF acts.s = <<>>
    THEN [s |-> "// Empty condition\nif (" \o condition.s
                \o ") {\n  // No actions\n}",
          w |-> condition.w
                \o <<"Condition at index "
                     \o ToString(group.activator.index)
                     \o " has no actions">>,
          pattern |-> [NoPattern EXCEPT !.type = "if",
                                        !.condition = condition.s],
          actions |-> acts.s]
    ELSE [s |-> "if (" \o condition.s \o ") {\n" \o indentBody(acts.s)
                \o "\n}",
          w |-> condition.w \o acts.w,
          pattern |-> [NoPattern EXCEPT !.type = "if",
                                        !.condition = condition.s],
          actions |-> acts.s]

decompileKnownGroup(group, all, pattern, acts) ==
  IF pattern.type # ""
    THEN decompilePatternGroup(group, pattern, acts)
    ELSE decompileIfGroup(group,
                          decompileCondition(group.activator, all, TRUE),
                          acts)

\* decompileGroup for a group without activator
decompileOrphans(acts) ==
  [s |-> join(acts.s, "\n"), w |-> acts.w, pattern |-> NoPattern,
   actions |-> acts.s]

\* returns the code of the group (s), the warnings pushed (w), the pattern
\* detected (type "if" for a plain condition) and the texts of the actions
decompileGroup(group, all) ==
  IF ~group.hasActivator
    THEN decompileOrphans(decompileActions(group.actions, all))
    ELSE decompileKnownGroup(group, all, detectSpecialPattern(group, all),
                             decompileActions(group.actions, all))

\* the loop of decompile over the groups
collect(bs) ==
  [codeBlocks |-> SelectSeq(texts(bs), LAMBDA code : code # ""),
   w |-> pushed(bs), blocks |-> bs]

decompileGroups(groups, all) ==
  collect([k \in 1..Len(groups) |-> decompileGroup(groups[k], all)])

\* the value decompile returns once the groups are decompiled to d
decompiled(logicConditions, enabled, grouped, d) ==
  [success |-> TRUE, error |-> "", code |-> join(d.codeBlocks, "\n\n"),
   warnings |-> grouped.warnings \o d.w,
   stats |-> [total |-> Len(logicConditions), enabled |-> Len(enabled),
              groups |-> Len(grouped.groups)],
   blocks |-> d.blocks]

decompileEnabled(logicConditions, enabled, grouped) ==
  decompiled(logicConditions, enabled, grouped,
             decompileGroups(grouped.groups, enabled))

\* decompile without the return for an empty list of enabled records
decompileFilteredNoEmptyCase(logicConditions, enabled) ==
  decompileEnabled(logicConditions, enabled, groupConditions(enabled))

decompileFiltered(logicConditions, enabled) ==
  IF enabled = <<>>
    THEN [success |-> TRUE, error |-> "",
          code |-> "// No logic conditions found",
          warnings |-> <<"No enabled logic conditions found">>,
          stats |-> [total |-> Len(logicConditions), enabled |-> 0,
                     groups |-> 0],
          blocks |-> <<>>]
    ELSE decompileEnabled(logicConditions, enabled, groupConditions(enabled))

\* the result of decompile for an array of logic conditions; code is the
\* text that generateBoilerplate puts after the header, the imports and the
\* list of warnings, and blocks keeps what each group was decompiled to
decompile(logicConditions) ==
  decompileFiltered(logicConditions, filterEnabled(logicConditions))

\* the argument of decompile: an array of logic conditions, or a value that
\* is no array (null, undefined, an object)
Array(items) == [kind |-> "array", items |-> items]
NonArray(kind) == [kind |-> kind, items |-> <<>>]

\* the records that decompileCondition(lc) decompiles for the operands of lc:
\* the positions of the records its LC operands name
referenced(lc, all) ==
  {find(all, o[2]) :
     o \in {p \in {<<lc.operandAType, lc.operandAValue>>,
                   <<lc.operandBType, lc.operandBValue>>} :
              p[1] = OPERAND_TYPE_LC /\ find(all, p[2]) # 0}}

\* decompileCondition(all[pos]) nests more than fuel calls of itself
RECURSIVE nestsDeeper(_, _, _)
nestsDeeper(pos, all, fuel) ==
  IF fuel = 0 THEN TRUE
  ELSE \E q \in referenced(all[pos], all) : nestsDeeper(q, all, fuel - 1)

\* decompileCondition(all[pos]) never returns: a chain of references longer
\* than the table comes back to a record it left, the calls nest without
\* end and the engine throws RangeError (maximum call stack size exceeded)
conditionOverflows(pos, all) == nestsDeeper(pos, all, Len(all) + 1)

\* decompileOperand(type, value, all) never returns
operandOverflows(type, value, all) ==
  /\ type = OPERAND_TYPE_LC
  /\ find(all, value) # 0
  /\ conditionOverflows(find(all, value), all)

\* decompileAction(lc, all) never returns
actionOverflows(lc, all) ==
  \/ operandOverflows(lc.operandBType, lc.operandBValue, all)
  \/ /\ lc.operation \in arithmeticOperations
     /\ operandOverflows(lc.operandAType, lc.operandAValue, all)

\* the calls decompileGroup makes for the activator of a group: those of
\* detectSpecialPattern and, when it finds no pattern, decompileCondition
activatorOverflows(activator, all) ==
  LET op == activator.operation
      aLC == find(all, activator.operandAValue)
      bLC == find(all, activator.operandBValue)
  IN IF op = OPERATION_EDGE /\ aLC # 0 THEN conditionOverflows(aLC, all)
     ELSE IF op = OPERATION_STICKY /\ aLC # 0 /\ bLC # 0
       THEN conditionOverflows(aLC, all) \/ conditionOverflows(bLC, all)
     ELSE IF op = OPERATION_DELAY /\ aLC # 0
       THEN conditionOverflows(aLC, all)
     ELSE IF op = OPERATION_TIMER THEN FALSE
     ELSE IF op = OPERATION_DELTA
       THEN operandOverflows(activator.operandAType,
                             activator.operandAValue, all)
     ELSE \/ operandOverflows(activator.operandAType,
                              activator.operandAValue, all)
          \/ operandOverflows(activator.operandBType,
                              activator.operandBValue, all)

groupOverflows(group, all) ==
  \/ group.hasActivator /\ activatorOverflows(group.activator, all)
  \/ \E k \in 1..Len(group.actions) : actionOverflows(group.actions[k], all)

\* decompile(input.items) throws instead of returning
decompileThrows(input) ==
  /\ input.kind = "array"
  /\ LET enabled == filterEnabled(input.items)
         groups == groupConditions(enabled).groups
     IN \E k \in 1..Len(groups) : groupOverflows(groups[k], enabled)

\* decompile without the guard on its argument
decompileInputNoGuard(input) == decompile(input.items)

\* decompile that keeps pushing to the array this.warnings refers to
keepWarningsArray(heap, ref) == [arrays |-> heap, ref |-> ref]

\* `this.warnings = []` at the start of decompile: a new array, to which
\* this.warnings refers from now on
assignFreshWarnings(heap, ref) ==
  [arrays |-> Append(heap, <<>>), ref |-> Len(heap) + 1]

\* decompile for any argument: the guard of decompile on its argument, then
\* the decompilation of the array
decompileInput(input) ==
  IF input.kind # "array"
    THEN [success |-> FALSE, error |-> "Invalid logic conditions array",
          code |-> "", warnings |-> <<>>,
          stats |-> [total |-> 0, enabled |-> 0, groups |-> 0],
          blocks |-> <<>>]
    ELSE decompile(input.items)

(* ---------------------------- input tables ----------------------------- *)
\* longest table given to decompile
MaxRecords == 3

\* an opcode that the operation enumeration does not have
UnknownOperations == {99}

\* a flight parameter that neither the API definitions nor FLIGHT_PARAM_NAMES
\* have
UnknownFlightParams == {999}

\* the records a table is made of, without their index: enabled, activator,
\* operation, operand A (type, value), operand B (type, value)
RecordShapes ==
  {<<1, -1, OPERATION_GREATER_THAN, OPERAND_TYPE_FLIGHT, 1,
     OPERAND_TYPE_VALUE, 100>>,
   <<1, 0, OPERATION_GREATER_THAN, OPERAND_TYPE_FLIGHT, 1,
     OPERAND_TYPE_VALUE, 100>>,
   <<1, -1, OPERATION_EDGE, OPERAND_TYPE_LC, 0, OPERAND_TYPE_VALUE, 1000>>,
   <<0, -1, OPERATION_TRUE, OPERAND_TYPE_VALUE, 0, OPERAND_TYPE_VALUE, 0>>,
   <<0, 0, OPERATION_GVAR_SET, OPERAND_TYPE_VALUE, 0, OPERAND_TYPE_VALUE, 3>>}
  \cup {<<1, a, op, OPERAND_TYPE_VALUE, 0, OPERAND_TYPE_VALUE, 0>> :
          a \in {-1, 0}, op \in UnknownOperations}
  \cup {<<1, -1, OPERATION_GREATER_THAN, OPERAND_TYPE_FLIGHT, v,
          OPERAND_TYPE_VALUE, 100>> : v \in UnknownFlightParams}
  \cup {<<1, a, OPERATION_GVAR_SET, OPERAND_TYPE_VALUE, 0,
          OPERAND_TYPE_VALUE, 3>> : a \in {0, 1, 7}}
  \cup {<<1, -1, OPERATION_NOT, OPERAND_TYPE_LC, v, OPERAND_TYPE_VALUE, 0>> :
          v \in {0, 1}}
  \cup {<<1, -1, OPERATION_GREATER_THAN, OPERAND_TYPE_FLIGHT, 0,
          OPERAND_TYPE_VALUE, d>> : d \in {0, 2000}}

\* the record of shape r in slot i
recordAt(i, r) ==
  [index |-> i, enabled |-> r[1], activatorId |-> r[2], operation |-> r[3],
   operandAType |-> r[4], operandAValue |-> r[5], operandBType |-> r[6],
   operandBValue |-> r[7], flags |-> 0]

\* the tables of up to MaxRecords records, slot k - 1 at position k
Tables ==
  {[k \in 1..Len(t) |-> recordAt(k - 1, t[k])] :
     t \in SeqsUpTo(RecordShapes, MaxRecords)}

Inputs ==
  {Array(t) : t \in Tables}
  \cup {NonArray(kind) : kind \in {"null", "undefined", "object"}}

(* --------------------------- semantic analyzer -------------------------- *)
\* the key under which detectConflicts files the assignments of a handler
handlerKey(stmt) ==
  IF stmt.handler = "when" THEN "when:" \o "condition" ELSE stmt.handler

\* collectAssignments for the bodies of the statements filed under key: the
\* number of locations recorded for each target of targets
collectAssignments(statements, key, targets) ==
  [t \in targets |->
     Cardinality({p \in (1..Len(statements)) \X (1..MaxBody + 1) :
        /\ statements[p[1]].type = "EventHandler"
        /\ handlerKey(statements[p[1]]) = key
        /\ p[2] <= Len(statements[p[1]].body)
        /\ statements[p[1]].body[p[2]].type = "Assignment"
        /\ statements[p[1]].body[p[2]].target = t})]

\* handlerAssignments: one entry for each handler key of the program
handlerAssignments(statements, targets) ==
  [key \in {handlerKey(statements[i]) :
              i \in {j \in 1..Len(statements) :
                       statements[j].type = "EventHandler"}} |->
     collectAssignments(statements, key, targets)]

\* the warnings detectConflicts pushes for a program whose assignments have
\* the targets of targets: a race condition for a target that more than one
\* entry of handlerAssignments with the key on.always holds, a conflict for
\* a target with several locations under one key
detectConflicts(statements, targets) ==
  LET assignments == handlerAssignments(statements, targets)
      alwaysHandlers == {key \in DOMAIN assignments : key = "on.always"}
  IN {[type |-> "race-condition", target |-> t, handler |-> "on.always"] :
        t \in {u \in targets :
                 /\ Cardinality(alwaysHandlers) > 1
                 /\ Cardinality({key \in alwaysHandlers :
                                   assignments[key][u] > 0}) > 1}}
     \cup {[type |-> "conflict", target |-> kt[2], handler |-> kt[1]] :
        kt \in {p \in (DOMAIN assignments) \X targets :
                  assignments[p[1]][p[2]] > 1}}

\* the programs given to the analyzer: on.always handlers, an if statement
\* and an on.arm handler over the core assignments
AnalyzedPrograms ==
  SeqsUpTo({OnAlways(body) : body \in SeqsUpTo({setG0, setVtx}, MaxBody)}
             \cup {If(gtHd, <<setG0>>), OnArm(0, <<setG0>>)},
           MaxStmts)

(* -------------------------- variable handler --------------------------- *)
\* GVAR_CONFIG.COUNT: the number of global variables
GVAR_COUNT == 8
GvarIndices == 0..(GVAR_COUNT - 1)
\* the value for "no slot is left"
NoSlot == -1
\* the slots neither named explicitly nor given to an earlier var
freeSlots(used, allocated) ==
  GvarIndices \ (used \cup {allocated[j] : j \in 1..Len(allocated)})

\* allocation that takes the lowest free slot, from gvar[0] up
allocateGvarLowestFirst(used, allocated) ==
  LET free == freeSlots(used, allocated)
  IN IF free = {} THEN NoSlot
     ELSE CHOOSE i \in free : \A j \in free : i <= j

\* the slot for the next var: from gvar[7] down to gvar[0], skipping the
\* slots that are unavailable; NoSlot when all slots are exhausted
allocateGvar(used, allocated) ==
  LET free == freeSlots(used, allocated)
  IN IF free = {} THEN NoSlot
     ELSE CHOOSE i \in free : \A j \in free : j <= i

(* --------------------------- state machine ----------------------------- *)
VARIABLES
  ast,               \* the statements of ast.statements lowered so far
  conditionLcIndex,  \* conditionLcIndex[j]: that field of statement j
  lcIndex,           \* this.lcIndex
  commands,          \* this.commands
  errors,            \* the errors the error handler has collected
  pc,                \* the stage reached: "idle", "generating", "returned",
                     \* "failed", "decompiled", "allocating", "exhausted",
                     \* "tableDecompiled", "threw", "analyzed",
                     \* "regenerating", "returnedAgain", "linting"
  result,            \* what decompile returned for the returned commands
  usedGvars,         \* the gvar indices the program names explicitly
  allocations,       \* allocations[j]: the gvar index of the j-th var
  allocError,        \* the position of the var that no slot was left for
  raised,            \* the errors that the exception generate threw reports
  logicConditions,   \* the argument decompile was called with
  analyzed,          \* ast.statements of the program given to the analyzer
  analyzerWarnings,  \* the warnings detectConflicts pushed
  arrays,            \* the warning arrays of a Decompiler, in creation order
  thisWarnings,      \* this.warnings: the array it refers to
  earlier,           \* the call of decompile before the last one
  firstCommands,     \* the array the first of two calls of generate returned
  cursor,            \* the statements the second call has lowered
  debounceMs,        \* setupLinting: its debounceMs argument
  lintCallback,      \* setupLinting: typeof lintCallback
  lintTimeout,       \* setupLinting: the timer id in lintTimeout, 0 undefined
  timers,            \* the timers set and neither run nor cleared: id, due
  clock,             \* the time, in the unit of debounceMs
  changes,           \* the content changes the editor has reported
  lastChange,        \* the time of the most recent of them
  burst,             \* how many of them, up to the most recent, each came
                     \* less than debounceMs after the one before
  runsSince          \* the runs of lintCallback since the most recent change

lintState ==
  <<debounceMs, lintCallback, lintTimeout, timers, clock, changes,
    lastChange, burst, runsSince>>

allocState == <<usedGvars, allocations, allocError>>
vars ==
  <<ast, conditionLcIndex, lcIndex, commands, errors, pc, result, allocState,
    raised, logicConditions, analyzed, analyzerWarnings,
                 arrays, thisWarnings, earlier, firstCommands, cursor, lintState>>

NoResult ==
  [success |-> FALSE, error |-> "", code |-> "", warnings |-> <<>>,
   stats |-> [total |-> 0, enabled |-> 0, groups |-> 0], blocks |-> <<>>]

\* the generator after construction
Init ==
  /\ ast = <<>>
  /\ conditionLcIndex = <<>>
  /\ lcIndex = 0
  /\ commands = <<>>
  /\ errors = <<>>
  /\ pc = "idle"
  /\ result = NoResult
  /\ usedGvars = {}
  /\ allocations = <<>>
  /\ allocError = 0
  /\ raised = <<>>
  /\ logicConditions = Array(<<>>)
  /\ analyzed = <<>>
  /\ analyzerWarnings = {}
  /\ arrays = <<<<>>>>
  /\ thisWarnings = 1
  /\ earlier = [made |-> FALSE, input |-> Array(<<>>), returned |-> FALSE,
                result |-> NoResult, ref |-> 0]
  /\ firstCommands = <<>>
  /\ cursor = 0
  /\ debounceMs = 0
  /\ lintCallback = "undefined"
  /\ lintTimeout = 0
  /\ timers = {}
  /\ clock = 0
  /\ changes = 0
  /\ lastChange = 0
  /\ burst = 0
  /\ runsSince = 0

\* errorHandler.throwIfErrors(): the errors the exception it throws reports,
\* none when no error was collected
throwIfErrors(collected) == collected

gen == [lcIndex |-> lcIndex, commands |-> commands, errors |-> errors,
        thrown |-> FALSE]

\* one statement of the loop of generate has been lowered to g; an
\* exception thrown while lowering ends the run
Lowered(stmt, g, annotation) ==
  /\ ast' = Append(ast, stmt)
  /\ conditionLcIndex' = Append(conditionLcIndex, annotation)
  /\ lcIndex' = g.lcIndex
  /\ commands' = g.commands
  /\ errors' = g.errors
  /\ pc' = IF g.thrown THEN "failed" ELSE "generating"
  /\ raised' = IF g.thrown THEN <<"unknown_override_target">> ELSE raised
  /\ UNCHANGED <<result, allocState, logicConditions, analyzed, analyzerWarnings,
                 arrays, thisWarnings, earlier, firstCommands, cursor, lintState>>

\* generate(ast) up to the loop over the statements
Generate ==
  /\ pc = "idle"
  /\ lcIndex' = 0
  /\ commands' = <<>>
  /\ errors' = <<>>
  /\ pc' = "generating"
  /\ UNCHANGED <<ast, conditionLcIndex, result, allocState, raised,
                 logicConditions, analyzed, analyzerWarnings,
                 arrays, thisWarnings, earlier, firstCommands, cursor, lintState>>

GenerateOnArm ==
  /\ pc = "generating"
  /\ \E stmt \in OnArmStatements :
       /\ CanAppend(ast, stmt)
       /\ Lowered(stmt, generateOnArm(gen, stmt), Undefined)

GenerateOnAlways ==
  /\ pc = "generating"
  /\ \E stmt \in OnAlwaysStatements :
       /\ CanAppend(ast, stmt)
       /\ Lowered(stmt, generateOnAlways(gen, stmt), Undefined)

GenerateConditional ==
  /\ pc = "generating"
  /\ \E stmt \in IfStatements \cup ReuseStatements(ast) :
       /\ CanAppend(ast, stmt)
       /\ LET r == generateConditional(gen, stmt, conditionLcIndex)
          IN Lowered(stmt, r.g, r.conditionLcIndex)

GenerateEdge ==
  /\ pc = "generating"
  /\ \E stmt \in EdgeStatements :
       /\ CanAppend(ast, stmt)
       /\ Lowered(stmt, generateEdge(gen, stmt), Undefined)

GenerateSticky ==
  /\ pc = "generating"
  /\ \E stmt \in StickyStatements :
       /\ CanAppend(ast, stmt)
       /\ Lowered(stmt, generateSticky(gen, stmt), Undefined)

GenerateDelay ==
  /\ pc = "generating"
  /\ \E stmt \in DelayStatements :
       /\ CanAppend(ast, stmt)
       /\ Lowered(stmt, generateDelay(gen, stmt), Undefined)

GenerateTimer ==
  /\ pc = "generating"
  /\ \E stmt \in TimerStatements :
       /\ CanAppend(ast, stmt)
       /\ Lowered(stmt, generateTimer(gen, stmt), Undefined)

GenerateWhenChanged ==
  /\ pc = "generating"
  /\ \E stmt \in WhenChangedStatements :
       /\ CanAppend(ast, stmt)
       /\ Lowered(stmt, generateWhenChanged(gen, stmt), Undefined)

\* generateStatement for a declaration: skipped
GenerateDeclaration ==
  /\ pc = "generating"
  /\ \E stmt \in DeclarationStatements :
       /\ CanAppend(ast, stmt)
       /\ Lowered(stmt, gen, Undefined)

\* generateStatement for any other statement type
GenerateUnsupported ==
  /\ pc = "generating"
  /\ \E stmt \in UnsupportedStatements :
       /\ CanAppend(ast, stmt)
       /\ Lowered(stmt, addError(gen, "unsupported_statement"), Undefined)

\* the end of generate: this.errorHandler.throwIfErrors(); return
\* this.commands
Return ==
  /\ pc = "generating"
  /\ pc' = IF errors # <<>> THEN "failed" ELSE "returned"
  /\ raised' = throwIfErrors(errors)
  /\ UNCHANGED <<ast, conditionLcIndex, lcIndex, commands, errors, result,
                 allocState, logicConditions, analyzed, analyzerWarnings,
                 arrays, thisWarnings, earlier, firstCommands, cursor, lintState>>

\* generate(ast) called again with the AST object that the call that just
\* returned was given, up to the loop over the statements: the statements
\* carry the conditionLcIndex fields that call left on them, and
\* this.commands is a new array
GenerateAgain ==
  /\ pc = "returned"
  /\ pc' = "regenerating"
  /\ firstCommands' = commands
  /\ cursor' = 0
  /\ lcIndex' = 0
  /\ commands' = <<>>
  /\ errors' = <<>>
  /\ UNCHANGED <<ast, conditionLcIndex, result, allocState, raised,
                 logicConditions, analyzed, analyzerWarnings, arrays,
                 thisWarnings, earlier, lintState>>

\* generateStatement with an if statement that already carries a
\* conditionLcIndex gating its body by that slot without lowering its
\* condition again
LowerAgainStale ==
  /\ pc = "regenerating"
  /\ cursor < Len(ast)
  /\ \E stmt \in {ast[cursor + 1]} :
     \E r \in
       {IF stmt.type = "EventHandler"
          THEN CASE stmt.handler = "on.arm" ->
                      [g |-> generateOnArm(gen, stmt),
                       conditionLcIndex |-> Undefined]
                 [] stmt.handler = "on.always" ->
                      [g |-> generateOnAlways(gen, stmt),
                       conditionLcIndex |-> Undefined]
                 [] stmt.handler = "edge" ->
                      [g |-> generateEdge(gen, stmt),
                       conditionLcIndex |-> Undefined]
                 [] stmt.handler = "sticky" ->
                      [g |-> generateSticky(gen, stmt),
                       conditionLcIndex |-> Undefined]
                 [] stmt.handler = "delay" ->
                      [g |-> generateDelay(gen, stmt),
                       conditionLcIndex |-> Undefined]
                 [] stmt.handler = "timer" ->
                      [g |-> generateTimer(gen, stmt),
                       conditionLcIndex |-> Undefined]
                 [] stmt.handler = "whenChanged" ->
                      [g |-> generateWhenChanged(gen, stmt),
                       conditionLcIndex |-> Undefined]
                 [] OTHER ->
                      IF conditionLcIndex[cursor + 1] # Undefined
                        THEN [g |-> generateBody(
                                      gen, stmt.body,
                                      conditionLcIndex[cursor + 1]),
                              conditionLcIndex |-> Undefined]
                        ELSE generateConditional(gen, stmt,
                                                 conditionLcIndex)
        ELSE IF stmt.type \in
                  {"Destructuring", "LetDeclaration", "VarDeclaration"}
          THEN [g |-> gen, conditionLcIndex |-> Undefined]
        ELSE [g |-> addError(gen, "unsupported_statement"),
              conditionLcIndex |-> Undefined]} :
       /\ cursor' = cursor + 1
       /\ lcIndex' = r.g.lcIndex
       /\ commands' = r.g.commands
       /\ errors' = r.g.errors
       /\ conditionLcIndex' =
            [conditionLcIndex EXCEPT ![cursor + 1] =
               IF r.conditionLcIndex = Undefined THEN @
               ELSE r.conditionLcIndex]
       /\ pc' = IF r.g.thrown THEN "failed" ELSE "regenerating"
       /\ raised' = IF r.g.thrown THEN <<"unknown_override_target">>
                    ELSE raised
  /\ UNCHANGED <<ast, result, allocState, logicConditions, analyzed,
                 analyzerWarnings, arrays, thisWarnings, earlier,
                 firstCommands,
                 lintState>>

\* one turn of the loop of the second call: generateStatement and
\* generateEventHandler for the next statement of the program; an exception
\* thrown while lowering ends the call
LowerAgain ==
  /\ pc = "regenerating"
  /\ cursor < Len(ast)
  /\ \E stmt \in {ast[cursor + 1]} :
     \E r \in
       {IF stmt.type = "EventHandler"
          THEN CASE stmt.handler = "on.arm" ->
                      [g |-> generateOnArm(gen, stmt),
                       conditionLcIndex |-> Undefined]
                 [] stmt.handler = "on.always" ->
                      [g |-> generateOnAlways(gen, stmt),
                       conditionLcIndex |-> Undefined]
                 [] stmt.handler = "edge" ->
                      [g |-> generateEdge(gen, stmt),
                       conditionLcIndex |-> Undefined]
                 [] stmt.handler = "sticky" ->
                      [g |-> generateSticky(gen, stmt),
                       conditionLcIndex |-> Undefined]
                 [] stmt.handler = "delay" ->
                      [g |-> generateDelay(gen, stmt),
                       conditionLcIndex |-> Undefined]
                 [] stmt.handler = "timer" ->
                      [g |-> generateTimer(gen, stmt),
                       conditionLcIndex |-> Undefined]
                 [] stmt.handler = "whenChanged" ->
                      [g |-> generateWhenChanged(gen, stmt),
                       conditionLcIndex |-> Undefined]
                 [] OTHER ->
                      generateConditional(gen, stmt, conditionLcIndex)
        ELSE IF stmt.type \in
                  {"Destructuring", "LetDeclaration", "VarDeclaration"}
          THEN [g |-> gen, conditionLcIndex |-> Undefined]
        ELSE [g |-> addError(gen, "unsupported_statement"),
              conditionLcIndex |-> Undefined]} :
       /\ cursor' = cursor + 1
       /\ lcIndex' = r.g.lcIndex
       /\ commands' = r.g.commands
       /\ errors' = r.g.errors
       /\ conditionLcIndex' =
            [conditionLcIndex EXCEPT ![cursor + 1] =
               IF r.conditionLcIndex = Undefined THEN @
               ELSE r.conditionLcIndex]
       /\ pc' = IF r.g.thrown THEN "failed" ELSE "regenerating"
       /\ raised' = IF r.g.thrown THEN <<"unknown_override_target">>
                    ELSE raised
  /\ UNCHANGED <<ast, result, allocState, logicConditions, analyzed,
                 analyzerWarnings, arrays, thisWarnings, earlier,
                 firstCommands,
                 lintState>>

\* the end of the second call: this.errorHandler.throwIfErrors(); return
\* this.commands
ReturnAgain ==
  /\ pc = "regenerating"
  /\ cursor = Len(ast)
  /\ pc' = IF errors # <<>> THEN "failed" ELSE "returnedAgain"
  /\ raised' = throwIfErrors(errors)
  /\ UNCHANGED <<ast, conditionLcIndex, lcIndex, commands, errors, result,
                 allocState, logicConditions, analyzed, analyzerWarnings,
                 arrays, thisWarnings, earlier, firstCommands, cursor,
                 lintState>>

\* the returned commands, read back as logic conditions, are decompiled
Decompile ==
  /\ pc = "returned"
  /\ logicConditions' = Array(parseLogicCommands(commands))
  /\ result' = decompileInput(logicConditions')
  /\ pc' = "decompiled"
  /\ UNCHANGED <<ast, conditionLcIndex, lcIndex, commands, errors, allocState,
                 raised, analyzed, analyzerWarnings,
                 arrays, thisWarnings, earlier, firstCommands, cursor, lintState>>

\* decompile is called on a Decompiler with a table read from the flight
\* controller, or with a value that is no table; it returns, or the
\* exception of a recursion without end leaves it. A second call on the
\* same Decompiler follows a call with a table of at most one record
DecompileTable ==
  /\ \E input \in
         IF pc = "idle" THEN Inputs
         ELSE IF /\ pc \in {"tableDecompiled", "threw"}
                 /\ ~earlier.made
                 /\ \A k \in DOMAIN logicConditions.items : k = 1
           THEN {i \in Inputs : \A k \in DOMAIN i.items : k = 1}
         ELSE {} :
       /\ LET begin == assignFreshWarnings(arrays, thisWarnings)
              threw == decompileThrows(input)
              enabled == filterEnabled(input.items)
              grouped == groupConditions(enabled)
              first == CHOOSE k \in 1..Len(grouped.groups) :
                         /\ groupOverflows(grouped.groups[k], enabled)
                         /\ \A j \in 1..(k - 1) :
                              ~groupOverflows(grouped.groups[j], enabled)
              pushes ==
                IF input.kind # "array" THEN <<>>
                ELSE IF threw
                  THEN grouped.warnings
                       \o decompileGroups(SubSeq(grouped.groups, 1, first - 1),
                                          enabled).w
                ELSE decompileInput(input).warnings
              after == [begin.arrays EXCEPT ![begin.ref] = @ \o pushes]
          IN /\ logicConditions' = input
             /\ arrays' = after
             /\ thisWarnings' = begin.ref
             /\ IF threw
                  THEN pc' = "threw" /\ UNCHANGED result
                  ELSE /\ pc' = "tableDecompiled"
                       /\ result' =
                            [decompileInput(input) EXCEPT
                               !.warnings = IF input.kind = "array"
                                              THEN after[begin.ref] ELSE <<>>]
             /\ earlier' =
                  IF pc = "idle" THEN earlier
                  ELSE [made |-> TRUE, input |-> logicConditions,
                        returned |-> pc = "tableDecompiled",
                        result |-> result,
                        ref |-> IF /\ pc = "tableDecompiled"
                                   /\ logicConditions.kind = "array"
                                  THEN thisWarnings ELSE 0]
  /\ UNCHANGED <<ast, conditionLcIndex, lcIndex, commands, errors, allocState,
                 raised, analyzed, analyzerWarnings, firstCommands, cursor, lintState>>

\* the analyzer scans the program for the gvar[N] it names explicitly and
\* marks those slots as unavailable
ScanExplicitGvars ==
  /\ pc = "idle"
  /\ \E E \in SUBSET GvarIndices : usedGvars' = E
  /\ pc' = "allocating"
  /\ UNCHANGED <<ast, conditionLcIndex, lcIndex, commands, errors, result,
                 allocations, allocError, raised, logicConditions,
                 analyzed, analyzerWarnings,
                 arrays, thisWarnings, earlier, firstCommands, cursor, lintState>>

\* the analyzer reaches the next var declaration of the program
AllocateVar ==
  /\ pc = "allocating"
  /\ LET slot == allocateGvar(usedGvars, allocations) IN
     IF slot = NoSlot
       THEN /\ allocError' = Len(allocations) + 1
            /\ pc' = "exhausted"
            /\ UNCHANGED allocations
       ELSE /\ allocations' = Append(allocations, slot)
            /\ UNCHANGED <<allocError, pc>>
  /\ UNCHANGED <<ast, conditionLcIndex, lcIndex, commands, errors, result,
                 usedGvars, raised, logicConditions, analyzed, analyzerWarnings,
                 arrays, thisWarnings, earlier, firstCommands, cursor, lintState>>

\* the conflict detection pass of analyze(ast) on a program
DetectConflicts ==
  /\ pc = "idle"
  /\ \E program \in AnalyzedPrograms :
       /\ analyzed' = program
       /\ analyzerWarnings' = detectConflicts(program, {setG0.target,
                                                        setVtx.target})
  /\ pc' = "analyzed"
  /\ UNCHANGED <<ast, conditionLcIndex, lcIndex, commands, errors, result,
                 allocState, raised, logicConditions, arrays, thisWarnings,
                 earlier, firstCommands, cursor, lintState>>


(* ----------------------------- setupLinting ---------------------------- *)
\* setupLinting(editor, lintCallback, debounceMs): the listener is
\* registered; no content change has been reported yet
SetupLinting ==
  /\ pc = "idle"
  /\ pc' = "linting"
  /\ \E d \in 1..MaxDebounce, t \in {"function", "undefined"} :
       /\ debounceMs' = d
       /\ lintCallback' = t
  /\ UNCHANGED <<lintTimeout, timers, clock, changes, lastChange, burst,
                 runsSince>>
  /\ UNCHANGED <<ast, conditionLcIndex, lcIndex, commands, errors, result,
                 allocState, raised, logicConditions, analyzed,
                 analyzerWarnings, arrays, thisWarnings, earlier,
                 firstCommands, cursor>>

\* the listener without clearTimeout(lintTimeout)
ContentChangeNoClear ==
  /\ pc = "linting"
  /\ changes < MaxChanges
  /\ clock + debounceMs <= MaxTime
  /\ timers' = timers \cup {[id |-> changes + 1, due |-> clock + debounceMs]}
  /\ lintTimeout' = changes + 1
  /\ changes' = changes + 1
  /\ lastChange' = clock
  /\ burst' = IF changes > 0 /\ clock - lastChange < debounceMs
                THEN burst + 1 ELSE 1
  /\ runsSince' = 0
  /\ UNCHANGED <<pc, debounceMs, lintCallback, clock>>
  /\ UNCHANGED <<ast, conditionLcIndex, lcIndex, commands, errors, result,
                 allocState, raised, logicConditions, analyzed,
                 analyzerWarnings, arrays, thisWarnings, earlier,
                 firstCommands, cursor>>

\* the listener of onDidChangeModelContent: clearTimeout(lintTimeout);
\* lintTimeout = setTimeout(..., debounceMs)
ContentChange ==
  /\ pc = "linting"
  /\ changes < MaxChanges
  /\ clock + debounceMs <= MaxTime
  /\ timers' = {t \in timers : t.id # lintTimeout}
                \cup {[id |-> changes + 1, due |-> clock + debounceMs]}
  /\ lintTimeout' = changes + 1
  /\ changes' = changes + 1
  /\ lastChange' = clock
  /\ burst' = IF changes > 0 /\ clock - lastChange < debounceMs
                THEN burst + 1 ELSE 1
  /\ runsSince' = 0
  /\ UNCHANGED <<pc, debounceMs, lintCallback, clock>>
  /\ UNCHANGED <<ast, conditionLcIndex, lcIndex, commands, errors, result,
                 allocState, raised, logicConditions, analyzed,
                 analyzerWarnings, arrays, thisWarnings, earlier,
                 firstCommands, cursor>>

\* the function given to setTimeout runs, no earlier than its delay after
\* the call: if (typeof lintCallback === 'function') lintCallback()
TimeoutRuns ==
  /\ pc = "linting"
  /\ \E t \in timers :
       /\ t.due <= clock
       /\ timers' = timers \ {t}
  /\ runsSince' = IF lintCallback = "function" THEN runsSince + 1
                  ELSE runsSince
  /\ UNCHANGED <<pc, debounceMs, lintCallback, lintTimeout, clock, changes,
                 lastChange, burst>>
  /\ UNCHANGED <<ast, conditionLcIndex, lcIndex, commands, errors, result,
                 allocState, raised, logicConditions, analyzed,
                 analyzerWarnings, arrays, thisWarnings, earlier,
                 firstCommands, cursor>>

\* time passes
TimePasses ==
  /\ pc = "linting"
  /\ clock < MaxTime
  /\ clock' = clock + 1
  /\ UNCHANGED <<pc, debounceMs, lintCallback, lintTimeout, timers, changes,
                 lastChange, burst, runsSince>>
  /\ UNCHANGED <<ast, conditionLcIndex, lcIndex, commands, errors, result,
                 allocState, raised, logicConditions, analyzed,
                 analyzerWarnings, arrays, thisWarnings, earlier,
                 firstCommands, cursor>>

Next ==
  \/ Generate
  \/ GenerateOnArm
  \/ GenerateOnAlways
  \/ GenerateConditional
  \/ GenerateEdge
  \/ GenerateSticky
  \/ GenerateDelay
  \/ GenerateTimer
  \/ GenerateWhenChanged
  \/ GenerateDeclaration
  \/ GenerateUnsupported
  \/ Return
  \/ Decompile
  \/ DecompileTable
  \/ ScanExplicitGvars
  \/ AllocateVar
  \/ DetectConflicts
  \/ GenerateAgain
  \/ LowerAgain
  \/ ReturnAgain

Spec == Init /\ [][Next]_vars

\* an editor with linting set up: the event loop runs a timer that is due,
\* and time passes
LintSpec ==
  /\ Init
  /\ [][SetupLinting \/ ContentChange \/ TimeoutRuns \/ TimePasses]_vars
  /\ WF_vars(TimeoutRuns)
  /\ WF_vars(TimePasses)

(* ------------------------------ claims --------------------------------- *)
\* the k-th command of this.commands, read as a logic condition
commandAt(k) == parseLogicCommand(commands[k])
\* generate has returned this.commands
Returned == pc \in {"returned", "decompiled"}
\* the operands of a logic condition, as <<type, value>> pairs
operandsOf(lc) ==
  {<<lc.operandAType, lc.operandAValue>>,
   <<lc.operandBType, lc.operandBValue>>}

\* C1: in every command list that generate returns, each operand of the
\* LC-result type names a slot that is strictly smaller than the slot of the
\* record carrying it (and is a slot, i.e. not negative), so no record
\* references itself or a later record.
C1_ReferencesPointBack ==
  Returned =>
    \A k \in 1..Len(commands) :
      \A o \in operandsOf(commandAt(k)) :
        o[1] = OPERAND_TYPE_LC => o[2] >= 0 /\ o[2] < commandAt(k).index

\* a returned list with a record both of whose operands are LC results, and
\* a record of Math.abs that reads the record before it
C1_Witness ==
  /\ Returned
  /\ \E k \in 1..Len(commands) :
       /\ commandAt(k).operandAType = OPERAND_TYPE_LC
       /\ commandAt(k).operandBType = OPERAND_TYPE_LC
  /\ \E k \in 1..Len(commands) :
       /\ commandAt(k).operation = OPERATION_MAX
       /\ commandAt(k).operandBType = OPERAND_TYPE_LC

\* C2: in every command list that generate returns, the activator of a
\* record, when it is not -1, is the slot of an enabled record that stands
\* earlier in the same list.
C2_ActivatorsEmittedBefore ==
  Returned =>
    \A k \in 1..Len(commands) :
      commandAt(k).activatorId # -1 =>
        \E j \in 1..(k - 1) :
          /\ commandAt(j).index = commandAt(k).activatorId
          /\ commandAt(j).enabled = 1

\* a returned list of two statements where a marked if statement's body is
\* gated by the slot of the first statement's condition
C2_Witness ==
  /\ Returned
  /\ Len(ast) = 2
  /\ isMarked(ast[2])
  /\ \E k \in 3..Len(commands) : commandAt(k).activatorId = 0

\* C3: at every step of a generate run lcIndex is the number of commands
\* emitted so far, the k-th command carries slot k-1 (dense from 0, no gap,
\* no repeat), and a step of the run keeps the commands emitted before it,
\* in place and unchanged.
C3_DenseAppendOnly ==
  [][/\ lcIndex' = Len(commands')
     /\ \A k \in 1..Len(commands') :
          parseLogicCommand(commands'[k]).index = k - 1
     /\ pc = "generating" =>
          /\ Len(commands) <= Len(commands')
          /\ SubSeq(commands', 1, Len(commands)) = commands]_vars

\* a run in progress that has lowered two statements into four records or
\* more
C3_Witness ==
  /\ pc = "generating"
  /\ Len(ast) >= 2
  /\ Len(commands) >= 4
  /\ lcIndex = Len(commands)

\* C4: generate returns a command list only when the list has at most 64
\* records; lowering that produces more ends in a hard error.
C4_CapEnforced ==
  Returned => Len(commands) <= MAX_LOGIC_CONDITIONS

(* ------------------------- source text of inputs ----------------------- *)
\* the JavaScript text of an operand of the input program
operandSource(v) ==
  CASE v.t = "num" -> ToString(v.v)
    [] v.t = "gvar" -> "gvar[" \o ToString(v.i) \o "]"
    [] v.t = "rc" -> "rc[" \o ToString(v.i) \o "]"
    [] v.t = "path" -> v.p
    [] OTHER -> "?"

\* the JavaScript texts that denote condition c of the input program: the
\* text as written and the spellings with the same meaning that a decompiler
\* may choose (=== for ==, a flag as `flag === 1`, a negated comparison for
\* !==, >= and <=); a sub-condition is parenthesised where JavaScript's
\* precedence needs it, with or without parentheses where it does not
RECURSIVE conditionSources(_)
wrapped(c) == {"(" \o x \o ")" : x \in conditionSources(c)}
\* operand of !: anything but a plain flag or literal needs parentheses
negand(c) ==
  CASE c.type = "MemberExpression" -> {c.value.p} \cup wrapped(c)
    [] c.type = "Literal" -> conditionSources(c) \cup wrapped(c)
    [] OTHER -> wrapped(c)
\* operand of && (tight = TRUE) or of ||
side(c, tight) ==
  IF c.type = "LogicalExpression" /\ c.operator = "||" /\ tight
    THEN wrapped(c)
    ELSE conditionSources(c) \cup wrapped(c)
conditionSources(c) ==
  CASE c.type = "BinaryExpression" ->
         LET l == operandSource(c.left)
             r == operandSource(c.right)
             positive(o) == {l \o " " \o o \o " " \o r}
             negative(o) == {"!(" \o l \o " " \o o \o " " \o r \o ")"}
         IN CASE c.operator \in {"===", "=="} -> positive("===")
              [] c.operator \in {"!==", "!="} ->
                   positive("!==") \cup negative("===")
              [] c.operator = ">=" -> positive(">=") \cup negative("<")
              [] c.operator = "<=" -> positive("<=") \cup negative(">")
              [] OTHER -> positive(c.operator)
    [] c.type = "LogicalExpression" ->
         {x \o " " \o c.operator \o " " \o y :
            x \in side(c.left, c.operator = "&&"),
            y \in side(c.right, c.operator = "&&")}
    [] c.type = "UnaryExpression" -> {"!" \o x : x \in negand(c.argument)}
    [] c.type = "MemberExpression" ->
         {c.value.p, c.value.p \o " === 1"}
    [] c.type = "Literal" -> {IF c.value THEN "true" ELSE "false"}
    [] OTHER -> {}

\* the block of the decompiled program for an if statement, if any
ifBlocks ==
  {k \in 1..Len(result.blocks) : result.blocks[k].pattern.type = "if"}

\* C5: when the program `if (a CMP b) { override.T = v; }`, with CMP one of
\* ===, > and <, T a supported override target and v a literal, has been
\* lowered and its records decompiled, the decompiled program has an if
\* block with the same comparison whose body is the one assignment of v to T.
C5_OverrideRoundTrip ==
  \A op \in {"===", ">", "<"}, T \in OverrideTargets, v \in {0, 3} :
    (pc = "decompiled"
     /\ ast = <<If(cmp(op), <<Assign(Override(T), Num(v))>>)>>)
    => \E k \in ifBlocks :
         /\ result.blocks[k].pattern.condition \in conditionSources(cmp(op))
         /\ result.blocks[k].actions = <<T \o " = " \o ToString(v) \o ";">>

\* the fields of a decompiled block that name the arguments of its call
sameCall(block, stmt) ==
  /\ block.pattern.type = stmt.handler
  /\ block.actions # <<>>
  /\ CASE stmt.handler \in {"edge", "delay"} ->
            /\ block.pattern.condition \in conditionSources(stmt.condition)
            /\ block.pattern.duration = ToString(stmt.duration)
       [] stmt.handler = "sticky" ->
            /\ block.pattern.onCondition
                 \in conditionSources(stmt.onCondition)
            /\ block.pattern.offCondition
                 \in conditionSources(stmt.offCondition)
       [] stmt.handler = "timer" ->
            /\ block.pattern.onMs = ToString(stmt.onMs)
            /\ block.pattern.offMs = ToString(stmt.offMs)
       [] stmt.handler = "whenChanged" ->
            /\ block.pattern.value = operandSource(stmt.value)
            /\ block.pattern.threshold = ToString(stmt.threshold)
       [] OTHER -> FALSE

\* C6: when a program of one edge, sticky, delay, timer or whenChanged call
\* with a non-empty body has been lowered and its records decompiled, the
\* decompiled program has a call of the same kind with the same
\* condition(s), duration, on and off times, monitored value and threshold.
C6_PatternRoundTrip ==
  (pc = "decompiled" /\ Len(ast) = 1
   /\ ast[1].type = "EventHandler"
   /\ ast[1].handler \in {"edge", "sticky", "delay", "timer", "whenChanged"}
   /\ ast[1].body # <<>>)
  => \E k \in 1..Len(result.blocks) : sameCall(result.blocks[k], ast[1])

\* a handler that stands on its own: not marked to share the condition of
\* another statement, with a body, and an if statement with a condition
isIndependentHandler(s) ==
  /\ s.type = "EventHandler" /\ ~isMarked(s) /\ s.body # <<>>
  /\ isIf(s) => s.condition.type # "null"

\* C7: when a program of n independent handlers has been lowered and its
\* records decompiled, decompile reports n groups and emits n statements.
C7_OneGroupPerHandler ==
  (pc = "decompiled" /\ \A i \in 1..Len(ast) : isIndependentHandler(ast[i]))
  => /\ result.stats.groups = Len(ast)
     /\ Len(SelectSeq(result.blocks, LAMBDA b : b.s # "")) = Len(ast)

(* --------------------- one statement being lowered --------------------- *)
\* a step of the loop of generate: the statement it lowers, the slot the
\* first record it emits gets, and the k-th record it emits
lowers == pc = "generating" /\ Len(ast') = Len(ast) + 1
lowered == ast'[Len(ast')]
base == lcIndex
emitted == Len(commands') - Len(commands)
emittedAt(k) == parseLogicCommand(commands'[Len(commands) + k])
operandA(lc) == <<lc.operandAType, lc.operandAValue>>
operandB(lc) == <<lc.operandBType, lc.operandBValue>>
\* an assignment of a literal, a register or a flight parameter
isSimpleAssignment(a) ==
  /\ a.type = "Assignment" /\ a.operation = ""
  /\ a.target.t \in {"gvar", "override"}
  /\ a.value.t \in {"num", "gvar", "path"}

\* C8: a step that lowers an if statement marked to reuse the condition of
\* an earlier if statement emits the records of the body only, each with the
\* earlier statement's condition slot as activator; when the mark is for the
\* negation, it emits one NOT record over that slot, ungated, and then the
\* records of the body, each with the slot of the NOT record as activator.
C8_ConditionShared ==
  [][(lowers /\ isMarked(lowered)
      /\ \A i \in 1..Len(lowered.body) : isSimpleAssignment(lowered.body[i]))
     => LET slot == conditionLcIndex[lowered.reuseCondition]
            n == Len(lowered.body)
        IN /\ isIf(ast[lowered.reuseCondition])
           /\ slot >= 0 /\ slot < base
           /\ commandAt(slot + 1).activatorId = -1
           /\ IF lowered.invertReuse
                THEN /\ emitted = n + 1
                     /\ emittedAt(1).operation = OPERATION_NOT
                     /\ emittedAt(1).activatorId = -1
                     /\ operandA(emittedAt(1)) = <<OPERAND_TYPE_LC, slot>>
                     /\ \A k \in 2..emitted :
                          /\ emittedAt(k).activatorId = base
                          /\ emittedAt(k).operation # OPERATION_NOT
                ELSE /\ emitted = n
                     /\ \A k \in 1..emitted :
                          emittedAt(k).activatorId = slot]_vars

\* a program whose second statement shares the condition of the first, and
\* whose third statement is gated by its negation
C8_Witness ==
  /\ Len(ast) = 3
  /\ isIf(ast[1]) /\ ~isMarked(ast[1])
  /\ isMarked(ast[2]) /\ ~ast[2].invertReuse /\ Len(ast[2].body) = 2
  /\ isMarked(ast[3]) /\ ast[3].invertReuse /\ Len(ast[3].body) = 2
  /\ ast[2].reuseCondition = 1 /\ ast[3].reuseCondition = 1
  /\ Len(commands) = 7
  /\ commandAt(3).activatorId = 0 /\ commandAt(4).activatorId = 0
  /\ commandAt(5).operation = OPERATION_NOT
  /\ commandAt(6).activatorId = 4 /\ commandAt(7).activatorId = 4

\* the operand the catalog gives an operand of the input program
operandOf(v) ==
  CASE v.t = "num" -> <<OPERAND_TYPE_VALUE, v.v>>
    [] v.t = "gvar" -> <<OPERAND_TYPE_GVAR, v.i>>
    [] v.t = "path" /\ v.p \in DOMAIN operandMapping ->
         <<operandMapping[v.p].type, operandMapping[v.p].value>>
    [] OTHER -> <<-1, -1>>
\* the opcodes of the arithmetic operators
arithmeticOpcode(op) ==
  CASE op = "+" -> {OPERATION_ADD} [] op = "-" -> {OPERATION_SUB}
    [] op = "*" -> {OPERATION_MUL} [] op = "/" -> {OPERATION_DIV}
    [] OTHER -> {OPERATION_ADD, OPERATION_MODULUS}
isArithmeticAssignment(a) ==
  /\ a.type = "Assignment" /\ a.target.t = "gvar" /\ a.operation # ""
  /\ a.left.t \in {"num", "gvar", "path"}
  /\ a.right.t \in {"num", "gvar", "path"}

\* the records after the condition record of `if (c) { gvar[n] = l op r; }`
\* are one increment or decrement record, or the two records
selfOperation(a, opcode, v) ==
  /\ emitted = 2
  /\ emittedAt(2).operation = opcode
  /\ emittedAt(2).activatorId = base
  /\ operandA(emittedAt(2)) = <<OPERAND_TYPE_VALUE, a.target.i>>
  /\ operandB(emittedAt(2)) = operandOf(v)
twoRecords(a) ==
  /\ emitted = 3
  /\ emittedAt(2).operation \in arithmeticOpcode(a.operation)
  /\ operandA(emittedAt(2)) = operandOf(a.left)
  /\ operandB(emittedAt(2)) = operandOf(a.right)
  /\ emittedAt(3).operation = OPERATION_GVAR_SET
  /\ operandA(emittedAt(3)) = <<OPERAND_TYPE_VALUE, a.target.i>>
  /\ operandB(emittedAt(3)) = <<OPERAND_TYPE_LC, emittedAt(2).index>>
  /\ emittedAt(2).activatorId = base /\ emittedAt(3).activatorId = base

\* C9: a step that lowers `if (c) { gvar[n] = l op r; }`, c a comparison,
\* emits after the record of c: one increment record with A = (VALUE, n) and
\* B = v for gvar[n] + v and for v + gvar[n], one decrement record of that
\* shape for gvar[n] - v, and for every other l op r the arithmetic record
\* followed by the register-set record that reads its slot.
C9_SelfOperations ==
  [][(lowers /\ isIf(lowered) /\ ~isMarked(lowered)
      /\ lowered.condition = gtHd /\ Len(lowered.body) = 1
      /\ isArithmeticAssignment(lowered.body[1]))
     => LET a == lowered.body[1]
            self == Gvar(a.target.i)
        IN CASE a.operation = "+" /\ a.left = self ->
                  selfOperation(a, OPERATION_GVAR_INC, a.right)
             [] a.operation = "+" /\ a.right = self ->
                  selfOperation(a, OPERATION_GVAR_INC, a.left)
             [] a.operation = "-" /\ a.left = self ->
                  selfOperation(a, OPERATION_GVAR_DEC, a.right)
             [] OTHER -> twoRecords(a)]_vars

\* the program `if (...) { gvar[0] = flight.yaw + gvar[0]; }` returned as the
\* condition record and one increment record that adds flight.yaw
C9_Witness ==
  /\ Returned /\ Len(ast) = 1 /\ isIf(ast[1])
  /\ ast[1].body = <<AssignOp(Gvar(0), "+", yaw, Gvar(0))>>
  /\ Len(commands) = 2
  /\ commandAt(2).operation = OPERATION_GVAR_INC
  /\ operandB(commandAt(2)) = <<OPERAND_TYPE_FLIGHT, 40>>

\* C10: a step that lowers on.arm with delay s and a body of n simple
\* assignments emits n + 2 records: the arm timer greater than 0, the EDGE
\* record over that record with the delay s as operand B, and the n records
\* of the body, each with the slot of the EDGE record as activator.
C10_OnArm ==
  [][(lowers /\ lowered.type = "EventHandler" /\ lowered.handler = "on.arm"
      /\ \A i \in 1..Len(lowered.body) : isSimpleAssignment(lowered.body[i]))
     => /\ emitted = Len(lowered.body) + 2
        /\ emittedAt(1) =
             [index |-> base, enabled |-> 1, activatorId |-> -1,
              operation |-> OPERATION_GREATER_THAN,
              operandAType |-> operandMapping["flight.armTimer"].type,
              operandAValue |-> operandMapping["flight.armTimer"].value,
              operandBType |-> OPERAND_TYPE_VALUE, operandBValue |-> 0,
              flags |-> 0]
        /\ emittedAt(2) =
             [index |-> base + 1, enabled |-> 1, activatorId |-> -1,
              operation |-> OPERATION_EDGE,
              operandAType |-> OPERAND_TYPE_LC, operandAValue |-> base,
              operandBType |-> OPERAND_TYPE_VALUE,
              operandBValue |-> lowered.delay, flags |-> 0]
        /\ \A k \in 3..emitted :
             /\ emittedAt(k).activatorId = base + 1
             /\ emittedAt(k).index = base + k - 1]_vars

\* on.arm with a delay of 2 and two assignments returned as four records
C10_Witness ==
  /\ Returned /\ Len(ast) = 1 /\ ast[1] = OnArm(2, <<setG0, setVtx>>)
  /\ Len(commands) = 4
  /\ commandAt(2).operation = OPERATION_EDGE
  /\ commandAt(4).activatorId = 1

(* ------------------------ meaning of comparisons ----------------------- *)
\* the values the operands of a comparison are tried with
OperandValues == -2..2
\* the truth value of `a operator b` in JavaScript, for integers
truthOf(operator, a, b) ==
  CASE operator \in {"===", "=="} -> a = b
    [] operator \in {"!==", "!="} -> a # b
    [] operator = ">" -> a > b
    [] operator = "<" -> a < b
    [] operator = ">=" -> a >= b
    [] operator = "<=" -> a <= b
    [] OTHER -> FALSE
\* the truth value the logic engine gives a record of a comparing opcode
\* over the operand values a and b (NOT reads operand A only)
engineValue(operation, a, b) ==
  CASE operation = OPERATION_EQUAL -> a = b
    [] operation = OPERATION_GREATER_THAN -> a > b
    [] operation = OPERATION_LOWER_THAN -> a < b
    [] operation = OPERATION_NOT -> a = 0
    [] OTHER -> FALSE

\* C11: when `if (a op b) { ... }` has been lowered, op one of the eight
\* comparison operators, the record emitted for the condition is true in the
\* engine for exactly the integer values of a and b for which `a op b` is.
C11_ComparisonMeaning ==
  (Returned /\ Len(ast) = 1 /\ isIf(ast[1])
   /\ ast[1].condition.type = "BinaryExpression"
   /\ ast[1].condition.left.t = "path" /\ ast[1].condition.right.t = "num")
  => \A a \in OperandValues, b \in OperandValues :
       engineValue(commandAt(1).operation, a, b)
         = truthOf(ast[1].condition.operator, a, b)

(* ------------------------------ rc[i] = v ------------------------------ *)
\* the channels rc[i] may name, and the channel numbers of the device
AcceptedChannels == 0..17
DeviceChannels == 1..18

\* C12: when `if (c) { rc[i] = v; }` has been lowered: for i in 0..17 no
\* error is recorded and the body is one RC-channel-override record whose
\* channel operand is the device channel i + 1, in 1..18; for any other i an
\* error is recorded and the body emits no record.
C12_RcChannelTranslated ==
  \A i \in {0, 17, 18} :
    (pc # "idle" /\ ast = <<If(gtHd, <<Assign(Rc(i), Num(1500))>>)>>)
    => IF i \in AcceptedChannels
         THEN /\ errors = <<>>
              /\ Len(commands) = 2 /\ lcIndex = 2
              /\ commandAt(2).operation = OPERATION_RC_CHANNEL_OVERRIDE
              /\ commandAt(2).operandAType = OPERAND_TYPE_VALUE
              /\ commandAt(2).operandAValue \in DeviceChannels
              /\ commandAt(2).operandAValue = i + 1
              /\ operandB(commandAt(2)) = <<OPERAND_TYPE_VALUE, 1500>>
         ELSE /\ errors # <<>>
              /\ Len(commands) = 1 /\ lcIndex = 1

(* -------------------------- register allocation ------------------------ *)
\* the k-th highest element of a set of numbers
RECURSIVE kthHighest(_, _)
kthHighest(S, k) ==
  LET top == CHOOSE i \in S : \A j \in S : j <= i
  IN IF k = 1 THEN top ELSE kthHighest(S \ {top}, k - 1)
declaredVars == Len(allocations) + (IF allocError # 0 THEN 1 ELSE 0)

\* C13: with E the indices named explicitly, the j-th var declared has the
\* j-th highest index of 0..7 outside E, so the allocated indices are
\* pairwise distinct and outside E; the allocation of the vars declared so
\* far has failed exactly when their number plus |E| exceeds 8, and the
\* error then names the first var that could not be placed.
C13_AllocationFromTheTop ==
  pc \in {"allocating", "exhausted"}
  => /\ \A j \in 1..Len(allocations) :
          allocations[j] = kthHighest(GvarIndices \ usedGvars, j)
     /\ \A j, k \in 1..Len(allocations) :
          j # k => allocations[j] # allocations[k]
     /\ \A j \in 1..Len(allocations) : allocations[j] \notin usedGvars
     /\ (allocError # 0) <=> (declaredVars + Cardinality(usedGvars) > 8)
     /\ (pc = "exhausted") <=> (allocError # 0)
     /\ allocError # 0
          => allocError = (8 - Cardinality(usedGvars)) + 1

\* gvar[0] to gvar[4] named explicitly, three vars placed in gvar[7],
\* gvar[6] and gvar[5], and the fourth var refused
C13_Witness ==
  /\ pc = "exhausted"
  /\ usedGvars = 0..4
  /\ allocations = <<7, 6, 5>>
  /\ allocError = 4

(* ------------------------ diagnostics of generate ---------------------- *)
\* C14: generate fails only once every statement has been lowered (no step
\* that lowers a statement ends the run), the error it then raises reports
\* every error collected, and it returns commands only when no error was
\* collected.
C14_DiagnosticsTogether ==
  [][/\ (pc = "generating" /\ pc' = "failed")
          => /\ ast' = ast
             /\ \A i \in 1..Len(errors') :
                  \E j \in 1..Len(raised') : raised'[j] = errors'[i]
     /\ pc' = "returned" => errors' = <<>>]_vars


(* ------------------ decompile of tables read from the FC ----------------- *)
\* the table decompile was called with, and the records of it that decompile
\* takes into account
table == logicConditions.items
considered == filterEnabled(table)

\* decompile returned for a table
returnedForTable == pc = "tableDecompiled" /\ logicConditions.kind = "array"

\* decompile takes record k of the table into account
isConsidered(k) ==
  \E j \in 1..Len(considered) : considered[j].index = table[k].index

\* the opcode of record lc is none of the operation enumeration
unrecognised(lc) == lc.operation \notin DOMAIN OPERATION_NAMES

\* record lc is the activator of a record that decompile takes into account
usedAsActivator(lc) ==
  /\ lc.activatorId = -1
  /\ \E j \in 1..Len(considered) : considered[j].activatorId = lc.index

\* record lc is an action of some activator
usedAsAction(lc) == lc.activatorId # -1

\* the warnings that name the opcode of record lc
opcodeWarnings(lc) ==
  {"Unknown operation " \o ToString(lc.operation) \o " ("
     \o getOperationName(lc.operation) \o ") in " \o place :
     place \in {"condition", "action"}}

\* the table with record k given the recognised opcode TRUE
recognisedAt(k) == [table EXCEPT ![k].operation = OPERATION_TRUE]

\* the emitted code has text that stands for record k: it is not the code
\* emitted for the same table with a recognised opcode in record k
standsInCode(k) == result.code # decompile(recognisedAt(k)).code

\* C15: every record with an unrecognised opcode that decompile takes into
\* account, used as an activator or as an action, leaves decompile successful,
\* has a placeholder comment in the emitted code and a warning naming its
\* opcode
C15_UnknownOpcodeReported ==
  returnedForTable =>
    \A k \in 1..Len(table) :
      (isConsidered(k) /\ unrecognised(table[k])
       /\ (usedAsActivator(table[k]) \/ usedAsAction(table[k])))
      => /\ result.success
         /\ \E w \in 1..Len(result.warnings) :
              result.warnings[w] \in opcodeWarnings(table[k])
         /\ standsInCode(k)


\* decompile was called with a table and has ended, by a return or by an
\* exception
endedForTable ==
  pc \in {"tableDecompiled", "threw"} /\ logicConditions.kind = "array"

\* C16: decompile returns a result for every table of up to 64 records,
\* whatever records its LC operands name (the record itself, a later
\* record, a chain of records that comes back to its first record)
C16_DecompileTerminates ==
  (endedForTable /\ Len(table) <= MAX_LOGIC_CONDITIONS)
    => pc = "tableDecompiled" /\ result.success


\* the groups decompile forms of the records it takes into account
groupsOfTable == groupConditions(considered).groups

\* record lc names a record that decompile takes into account as its
\* activator
namesEnabledActivator(lc) ==
  \E j \in 1..Len(considered) : considered[j].index = lc.activatorId

\* record lc is an action of the group whose activator is the record that
\* lc names
inActivatorsGroup(lc) ==
  \E g \in 1..Len(groupsOfTable) :
    /\ groupsOfTable[g].hasActivator
    /\ groupsOfTable[g].activator.index = lc.activatorId
    /\ \E a \in 1..Len(groupsOfTable[g].actions) :
         groupsOfTable[g].actions[a] = lc

\* decompile warned that record lc has no valid activator
warnedOrphan(lc) ==
  \E w \in 1..Len(result.warnings) :
    result.warnings[w] =
      "Logic condition " \o ToString(lc.index) \o " has no valid activator"

\* C17: a record whose activator slot names an enabled record of the table
\* is an action of that activator's group, and a record is an orphan with
\* the 'no valid activator' warning only when its activator slot names no
\* enabled record
C17_ActionsInActivatorsGroup ==
  returnedForTable =>
    \A k \in 1..Len(considered) :
      considered[k].activatorId # -1 =>
        /\ namesEnabledActivator(considered[k])
             => inActivatorsGroup(considered[k])
        /\ warnedOrphan(considered[k])
             => ~namesEnabledActivator(considered[k])


\* record lc is a clearly unused slot: disabled, default opcode, no activator
isUnusedSlot(lc) ==
  lc.enabled = 0 /\ lc.operation = OPERATION_TRUE /\ lc.activatorId = -1

\* the enabled records of t that come before its first unused slot
RECURSIVE enabledBeforeUnused(_)
enabledBeforeUnused(t) ==
  IF t = <<>> \/ isUnusedSlot(Head(t)) THEN <<>>
  ELSE IF Head(t).enabled = 1
    THEN <<Head(t)>> \o enabledBeforeUnused(Tail(t))
  ELSE enabledBeforeUnused(Tail(t))

\* C18: the result of decompile is that of the enabled records before the
\* first unused slot (enabled 0, opcode 0, activator -1): stats.enabled counts
\* them, and the code, the statements, the warnings and the number of groups
\* are those of the table made of these records only; a record at or after
\* the unused slot adds nothing and another disabled record does not end the
\* scan
C18_ScanStopsAtUnusedSlot ==
  returnedForTable =>
    /\ result.stats.enabled = Len(enabledBeforeUnused(table))
    /\ LET only == decompile(enabledBeforeUnused(table))
       IN /\ result.code = only.code
          /\ result.blocks = only.blocks
          /\ result.warnings = only.warnings
          /\ result.stats.groups = only.stats.groups

\* C18 witness: decompile returned for a table with an enabled root, then an
\* unused slot, then an enabled record naming the root, and counted the root
\* only
C18_Witness ==
  /\ returnedForTable
  /\ Len(table) = 3
  /\ table[1].enabled = 1 /\ table[1].activatorId = -1
  /\ isUnusedSlot(table[2])
  /\ table[3].enabled = 1 /\ table[3].activatorId = 0
  /\ result.stats.enabled = 1
  /\ result.stats.total = 3


\* decompile was called with a value that is no array and has ended
endedForNonArray ==
  pc \in {"tableDecompiled", "threw"} /\ logicConditions.kind # "array"

\* the error texts that contain 'Invalid logic conditions'
invalidInputErrors ==
  {"Invalid logic conditions" \o rest : rest \in {"", " array"}}

\* C19: decompile of a value that is no array (null, undefined, an object)
\* returns, without an exception, success = false, an error containing
\* 'Invalid logic conditions' and empty code
C19_NonArrayRejected ==
  endedForNonArray =>
    /\ pc = "tableDecompiled"
    /\ result.success = FALSE
    /\ result.error \in invalidInputErrors
    /\ result.code = ""

\* C19 witness: decompile(null) has returned its failure result
C19_Witness ==
  /\ pc = "tableDecompiled"
  /\ logicConditions = NonArray("null")
  /\ result.success = FALSE
  /\ result.error = "Invalid logic conditions array"


\* the table has no enabled record: it is empty or all its records are
\* disabled
noEnabledRecord == \A k \in 1..Len(table) : table[k].enabled = 0

\* C20: decompile of a list without an enabled record returns success = true
\* with exactly one warning, no handler statement and no group
C20_NothingEnabled ==
  (endedForTable /\ noEnabledRecord) =>
    /\ pc = "tableDecompiled"
    /\ result.success
    /\ Len(result.warnings) = 1
    /\ result.blocks = <<>>
    /\ result.code = "// No logic conditions found"
    /\ result.stats.groups = 0

\* C20 witness: decompile has returned for a list of two disabled records,
\* the first of which is no unused slot
C20_Witness ==
  /\ returnedForTable
  /\ Len(table) = 2
  /\ noEnabledRecord
  /\ ~isUnusedSlot(table[1])
  /\ result.warnings = <<"No enabled logic conditions found">>


\* the value of a flight operand is in neither name table
isUnknownFlightParam(value) ==
  /\ getPropertyFromOperand(OPERAND_TYPE_FLIGHT, value) = ""
  /\ value \notin DOMAIN FLIGHT_PARAM_NAMES

\* C21: decompileOperand of a flight operand whose value neither the API
\* catalog nor the flight parameter names have returns a synthesized name
\* containing 'unknown' and adds at least one warning
C21_UnknownFlightParamWarned ==
  returnedForTable =>
    \A k \in 1..Len(table) :
      (isConsidered(k) /\ table[k].operandAType = OPERAND_TYPE_FLIGHT
       /\ isUnknownFlightParam(table[k].operandAValue))
      => LET d == decompileOperand(table[k].operandAType,
                                   table[k].operandAValue, considered, TRUE)
         IN /\ d.s = "flight.unknown_param_"
                       \o ToString(table[k].operandAValue)
            /\ d.w # <<>>


\* the targets assigned anywhere in the analyzed program
assignedTargets ==
  {analyzed[i].body[k].target :
     <<i, k>> \in {p \in (1..Len(analyzed)) \X (1..MaxBody + 1) :
        /\ analyzed[p[1]].type = "EventHandler"
        /\ p[2] <= Len(analyzed[p[1]].body)
        /\ analyzed[p[1]].body[p[2]].type = "Assignment"}}

\* statement i of the analyzed program is an on.always handler that assigns
\* target t
alwaysAssigns(i, t) ==
  /\ analyzed[i].type = "EventHandler"
  /\ analyzed[i].handler = "on.always"
  /\ \E k \in 1..Len(analyzed[i].body) :
       /\ analyzed[i].body[k].type = "Assignment"
       /\ analyzed[i].body[k].target = t

\* C22: when two distinct on.always handlers of the program assign the same
\* target, the analyzer has a warning of type race-condition for that target
C22_RaceConditionWarned ==
  pc = "analyzed" =>
    \A t \in assignedTargets :
      (\E i, j \in 1..Len(analyzed) :
         i # j /\ alwaysAssigns(i, t) /\ alwaysAssigns(j, t))
      => \E w \in analyzerWarnings :
           w.type = "race-condition" /\ w.target = t


\* record lc is 'arm timer greater than a number of milliseconds'
isArmTimerRoot(lc) ==
  /\ lc.activatorId = -1
  /\ lc.operation = OPERATION_GREATER_THAN
  /\ lc.operandAType = OPERAND_TYPE_FLIGHT
  /\ lc.operandAValue = operandMapping["flight.armTimer"].value
  /\ lc.operandBType = OPERAND_TYPE_VALUE
  /\ lc.operandBValue >= 0

\* the on.arm handler with a delay of s seconds around the statements body
onArmSource(s, body) ==
  "on.arm({ delay: " \o ToString(s) \o " }, () => {\n" \o indentBody(body)
    \o "\n});"

\* C23: a root record 'arm timer greater than d milliseconds' with the
\* actions it gates (register assignments) is decompiled to an on.arm
\* handler whose delay is d
\* divided by 1000, rounded down
C23_OnArmDelayRestored ==
  returnedForTable =>
    \A g \in 1..Len(groupsOfTable) :
      (/\ groupsOfTable[g].hasActivator
       /\ isArmTimerRoot(groupsOfTable[g].activator)
       /\ groupsOfTable[g].actions # <<>>
       /\ \A a \in 1..Len(groupsOfTable[g].actions) :
            groupsOfTable[g].actions[a].operation = OPERATION_GVAR_SET)
      => \E b \in 1..Len(result.blocks) :
           result.blocks[b].s =
             onArmSource(groupsOfTable[g].activator.operandBValue \div 1000,
                         result.blocks[b].actions)


\* a call of decompile on a Decompiler that an earlier call has used has
\* returned
returnedAgain == earlier.made /\ pc = "tableDecompiled"

\* the list of warnings that the earlier call returned, as it is now
earlierWarningsNow ==
  IF earlier.ref = 0 THEN earlier.result.warnings ELSE arrays[earlier.ref]

\* C24: the result of decompile on a Decompiler that an earlier call has
\* used is the result for its argument on a new Decompiler (code, warnings
\* and stats), and the warnings list the earlier call returned is as it was
\* returned
C24_ResultDependsOnArgumentOnly ==
  returnedAgain =>
    /\ result.code = decompileInput(logicConditions).code
    /\ result.warnings = decompileInput(logicConditions).warnings
    /\ result.stats = decompileInput(logicConditions).stats
    /\ earlier.returned => earlierWarningsNow = earlier.result.warnings

\* C24 witness: two calls on one Decompiler have returned, each with
\* warnings of its own
C24_Witness ==
  /\ returnedAgain
  /\ earlier.returned
  /\ earlier.result.warnings # <<>>
  /\ result.warnings # <<>>
  /\ result.warnings # earlier.result.warnings


(* --------------------------- condition trees --------------------------- *)
\* an operand of a comparison that lowers to no record of its own
isPlainOperand(v) ==
  v.t \in {"num", "gvar"} \/ (v.t = "path" /\ v.p \in DOMAIN operandMapping)

\* a well-formed condition tree: comparisons of plain operands, &&, ||, !,
\* boolean members and boolean literals
RECURSIVE isWellFormed(_)
isWellFormed(c) ==
  CASE c.type = "BinaryExpression" ->
         isPlainOperand(c.left) /\ isPlainOperand(c.right)
    [] c.type = "LogicalExpression" ->
         c.operator \in {"&&", "||"} /\ isWellFormed(c.left)
           /\ isWellFormed(c.right)
    [] c.type = "UnaryExpression" -> isWellFormed(c.argument)
    [] c.type = "MemberExpression" -> isPlainOperand(c.value)
    [] c.type = "Literal" -> c.value \in BOOLEAN
    [] OTHER -> FALSE

\* the number of nodes of a condition tree
RECURSIVE nodeCount(_)
nodeCount(c) ==
  CASE c.type = "LogicalExpression" ->
         nodeCount(c.left) + nodeCount(c.right) + 1
    [] c.type = "UnaryExpression" -> nodeCount(c.argument) + 1
    [] OTHER -> 1

\* the records first..first + nodeCount(c) - 1 that the step emitted are
\* those of tree c: the records of the left operand, then those of the right
\* operand, then the record that combines the slots of their last records
RECURSIVE recordsOfTree(_, _)
recordsOfTree(c, first) ==
  LET last == emittedAt(first + nodeCount(c) - 1) IN
  CASE c.type = "LogicalExpression" ->
         /\ recordsOfTree(c.left, first)
         /\ recordsOfTree(c.right, first + nodeCount(c.left))
         /\ last.operation =
              (IF c.operator = "&&" THEN OPERATION_AND ELSE OPERATION_OR)
         /\ operandA(last) =
              <<OPERAND_TYPE_LC, emittedAt(first + nodeCount(c.left) - 1).index>>
         /\ operandB(last) =
              <<OPERAND_TYPE_LC, emittedAt(first + nodeCount(c) - 2).index>>
    [] c.type = "UnaryExpression" ->
         /\ recordsOfTree(c.argument, first)
         /\ last.operation = OPERATION_NOT
         /\ operandA(last) =
              <<OPERAND_TYPE_LC, emittedAt(first + nodeCount(c) - 2).index>>
    [] c.type = "BinaryExpression" ->
         /\ operandA(last) = operandOf(c.left)
         /\ operandB(last) = operandOf(c.right)
    [] c.type = "MemberExpression" ->
         /\ last.operation = OPERATION_EQUAL
         /\ operandA(last) = operandOf(c.value)
         /\ operandB(last) = <<OPERAND_TYPE_VALUE, 1>>
    [] OTHER ->
         /\ operandA(last)[1] = OPERAND_TYPE_VALUE
         /\ operandB(last) = <<OPERAND_TYPE_VALUE, 0>>

\* C25: a step that lowers, without an exception, an if statement with a
\* well-formed condition tree of k nodes and a body of n simple assignments
\* emits k records for
\* the condition, those of a left operand before those of the right operand
\* and both before the record combining them, then the n records of the
\* body; the slot generateCondition returned, which gates the body and is
\* kept as the statement's conditionLcIndex, is that of the k-th record
C25_ConditionPostOrder ==
  [][(lowers /\ pc' = "generating" /\ isIf(lowered) /\ ~isMarked(lowered)
      /\ isWellFormed(lowered.condition)
      /\ \A i \in 1..Len(lowered.body) : isSimpleAssignment(lowered.body[i]))
     => LET k == nodeCount(lowered.condition) IN
        /\ emitted = k + Len(lowered.body)
        /\ recordsOfTree(lowered.condition, 1)
        /\ conditionLcIndex'[Len(ast')] = emittedAt(k).index
        /\ emittedAt(k).index = base + k - 1
        /\ \A i \in 1..Len(lowered.body) :
             emittedAt(k + i).activatorId = emittedAt(k).index]_vars

\* C25 witness: `if (flight.mode.failsafe || (flight.cellVoltage < 330 &&
\* flight.homeDistance > 500)) { override.vtx.power = 3; }` returned as six
\* records, the fifth the OR over slots 0 and 3, the sixth gated by slot 4
C25_Witness ==
  /\ Returned /\ Len(ast) = 1 /\ isIf(ast[1])
  /\ ast[1].condition =
       Logical("||", failsafe,
               Logical("&&", ltCell, Binary(">", hd, Num(500))))
  /\ Len(commands) = 6
  /\ commandAt(4).operation = OPERATION_AND
  /\ operandA(commandAt(4)) = <<OPERAND_TYPE_LC, 1>>
  /\ operandB(commandAt(4)) = <<OPERAND_TYPE_LC, 2>>
  /\ commandAt(5).operation = OPERATION_OR
  /\ operandA(commandAt(5)) = <<OPERAND_TYPE_LC, 0>>
  /\ operandB(commandAt(5)) = <<OPERAND_TYPE_LC, 3>>
  /\ commandAt(6).activatorId = 4


\* C26: a step that lowers, without an exception, `if (c) { ... }` with c a
\* comparison emits the record of c and then the records of the body, those
\* for the sub-expressions of an assigned value (arithmetic, Math.abs)
\* included, each with the slot of the record of c as its activator; no
\* record of the body carries the activator -1
C26_BodyRecordsGated ==
  [][(lowers /\ pc' = "generating" /\ isIf(lowered) /\ ~isMarked(lowered)
      /\ lowered.condition.type = "BinaryExpression")
     => \A k \in 2..emitted : emittedAt(k).activatorId = base]_vars


(* -------------------- assignments to var variables --------------------- *)
\* the assignment written with gvar[k] as its target, k the register the
\* variable of the target is allocated to
withGvarTarget(a) == [a EXCEPT !.target = Gvar(@.i)]

\* C27: a step that lowers, without an exception, `if (c) { x = ...; }`, x a
\* `var` variable allocated to register k and the assignment simple or
\* arithmetic with any of + - * / %, emits the commands that lowering
\* `if (c) { gvar[k] = ...; }` at that point emits
C27_VarAssignmentAsGvar ==
  [][(lowers /\ pc' = "generating" /\ isIf(lowered) /\ ~isMarked(lowered)
      /\ Len(lowered.body) = 1
      /\ lowered.body[1].type = "Assignment"
      /\ lowered.body[1].target.t = "var")
     => commands' =
          generateConditional(
            gen, [lowered EXCEPT !.body = <<withGvarTarget(@[1])>>],
            conditionLcIndex).g.commands]_vars


\* C28: a step that lowers, without an exception, `if (c) { gvar[n] = l op r;
\* }` that needs the arithmetic record (it is not an increment or decrement
\* of gvar[n]) emits that record, the second of the step, with the opcode of
\* the operation: ADD for +, SUB for -, MUL for *, DIV for / and MODULUS
\* for %
C28_ArithmeticOpcode ==
  [][(lowers /\ pc' = "generating" /\ isIf(lowered) /\ ~isMarked(lowered)
      /\ lowered.condition.type = "BinaryExpression"
      /\ Len(lowered.body) = 1
      /\ isArithmeticAssignment(lowered.body[1])
      /\ emitted = 3)
     => emittedAt(2).operation =
          (CASE lowered.body[1].operation = "+" -> OPERATION_ADD
             [] lowered.body[1].operation = "-" -> OPERATION_SUB
             [] lowered.body[1].operation = "*" -> OPERATION_MUL
             [] lowered.body[1].operation = "/" -> OPERATION_DIV
             [] lowered.body[1].operation = "%" -> OPERATION_MODULUS)]_vars


(* --------------------------- generate, twice --------------------------- *)
\* C29: a second call of generate on the AST object of a call that returned
\* leaves the conditionLcIndex field of every statement as the first call
\* left it, ends by returning too, and returns a command list equal to the
\* one the first call returned, whether or not statements carry
\* condition-reuse marks
C29_GenerateRepeatable ==
  [][/\ pc = "regenerating" => conditionLcIndex' = conditionLcIndex
     /\ (pc = "regenerating" /\ pc' # "regenerating")
          => /\ pc' = "returnedAgain"
             /\ cursor = Len(ast)
             /\ commands' = firstCommands]_vars

\* C29 witness: a program of three if statements, the second sharing the
\* condition of the first and the third gated by its negation, was lowered
\* twice to the same seven commands
C29_Witness ==
  /\ pc = "returnedAgain"
  /\ Len(ast) = 3
  /\ isIf(ast[1]) /\ ~isMarked(ast[1])
  /\ isMarked(ast[2]) /\ ~ast[2].invertReuse /\ Len(ast[2].body) = 2
  /\ isMarked(ast[3]) /\ ast[3].invertReuse /\ Len(ast[3].body) = 2
  /\ conditionLcIndex = <<0, Undefined, Undefined>>
  /\ Len(commands) = 7
  /\ commands = firstCommands
  /\ commandAt(3).activatorId = 0
  /\ commandAt(5).operation = OPERATION_NOT
  /\ commandAt(7).activatorId = 4


(* ------------------------------- linting ------------------------------- *)
\* C30: after setupLinting with a function as lintCallback, at most one
\* timer is pending at any time; a content change clears the pending timer
\* and leaves the one it sets, due debounceMs later; lintCallback runs only
\* when debounceMs has passed since the most recent content change; no run
\* comes between two changes of which the second is less than debounceMs
\* after the first, at most one run follows a change, and after a change one
\* run does come: a burst of such changes causes exactly one run, after its
\* last change
C30_LintDebounced ==
  /\ [](Cardinality(timers) <= 1 /\ runsSince <= 1)
  /\ [][/\ changes' = changes + 1
           => /\ timers' = {[id |-> lintTimeout',
                             due |-> clock + debounceMs]}
              /\ (changes > 0 /\ clock - lastChange < debounceMs
                    => runsSince = 0)
        /\ runsSince' = runsSince + 1
           => /\ changes > 0
              /\ clock >= lastChange + debounceMs
              /\ timers' = {}]_vars
  /\ (lintCallback = "function" /\ changes > 0)
       ~> (timers = {} /\ runsSince = 1)

\* C30 witness: three content changes, each less than debounceMs after the
\* one before, were followed by one run of lintCallback, debounceMs or more
\* after the third
C30_Witness ==
  /\ pc = "linting" /\ lintCallback = "function"
  /\ changes = 3 /\ burst = 3 /\ lastChange > 0
  /\ runsSince = 1 /\ timers = {}
  /\ clock >= lastChange + debounceMs

====
